---- MODULE Spec2Model ----
\* MediBrief backend: tenant-scoped clinical data, the RLS session binding,
\* the monthly AI quota, and the AI summary job / event stream pipeline.
EXTENDS Integers, Sequences, FiniteSets, TLC

\* ------------------------------------------------------------------ bounds
MaxRows == 2
\* Jobs in the queue at a time.
MaxJobs == 1

\* ------------------------------------------------------------------ sets
Clinics == {"A", "B"}
NoClinic == "none"
Tables == {"vital", "lab", "consultation", "summary"}

\* Staff principals as carried by a verified token {id, clinicId, role}.
Staff ==
  { [id |-> "adminA", clinicId |-> "A", role |-> "ADMIN"],
    [id |-> "doctorA", clinicId |-> "A", role |-> "DOCTOR"],
    [id |-> "adminB", clinicId |-> "B", role |-> "ADMIN"] }

VARIABLES
  patients,   \* Patient table: sequence, id = index
  rows,       \* VitalRecord / LabResult / Consultation / AISummary rows, id = index
  resp,       \* the response sent to the last staff request
  cache,      \* the keys ai:structured-input:{patientId} that are set, with their value
  pendingJobs \* jobs in the queue: data {clinicId, patientId}, the worker's progress

VARIABLES
  conns,      \* the pg Pool's connections: checked out?, session and tx-local setting
  rreq,       \* requests passing tenantMiddleware and their handler
  stmts       \* the handler statements executed so far, with the binding each saw

VARIABLES
  clinic,     \* the Clinic row: subscriptionPlan, aiCallCount, billingPeriodStart
  now,        \* the wall clock, in months since year 0 (UTC)
  qreq,       \* quota-checked requests (generate-summary, chat)
  addedNow    \* the number of jobs added to the queue in the month of `now`

VARIABLES
  job,        \* the BullMQ job: state, data.clinicId, attemptsMade, returnvalue
  summaries,  \* the number of AISummary rows the worker has created
  audits,     \* the number of AI_SUMMARY_GENERATE audit records written
  emitted,    \* worker events handed to publishJobEvent, not yet published
  published,  \* the events published on the job's channel, in order
  stream,     \* the GET /ai/stream/:jobId request and its response
  jresp       \* the last response of GET /ai/jobs/:jobId

VARIABLES
  areq        \* the last request that reached a protected route, and what became of it

VARIABLES
  issued,     \* the number of invite tokens generated so far (each one is fresh)
  sessions,   \* the patients that hold a signed PATIENT token
  setups      \* patient-setup requests that passed their checks and await the update

VARIABLES
  clinicTable,   \* Clinic rows created by registration: email, the request that made it
  userTable,     \* User rows created by registration: email, role, the request
  auditLogTable, \* AuditLog rows created by registration: action, the request
  registrations  \* register-clinic requests: payload, position in the handler, status

VARIABLES
  riskInput,  \* the arguments of one computeCompositeRiskScore call
  riskResult  \* what the call returned: score, tier, contributors

VARIABLES
  zInput,  \* the vital readings of one patient and type, in the order they were recorded
  zFlag  \* the risk flag the worker computed from them

VARIABLES
  patientRows,  \* the Patient table as GET /patients sees it: id, clinicId, createdAt, isArchived
  walk  \* a client paging through GET /patients: limit, cursor, the pages received so far

dataVars == <<patients, rows, resp, cache, pendingJobs>>
rlsVars == <<conns, rreq, stmts>>
quotaVars == <<clinic, now, qreq, addedNow>>
streamVars == <<job, summaries, audits, emitted, published, stream, jresp>>
authVars == <<areq>>
portalVars == <<issued, sessions, setups>>
regVars == <<clinicTable, userTable, auditLogTable, registrations>>
riskVars == <<riskInput, riskResult>>
zVars == <<zInput, zFlag>>
pageVars == <<patientRows, walk>>
extVars == <<regVars, riskVars, zVars, pageVars>>

vars == <<dataVars, rlsVars, quotaVars, streamVars, authVars, portalVars, extVars>>

notDataVars == <<rlsVars, quotaVars, streamVars, authVars, portalVars, extVars>>
notRlsVars == <<dataVars, quotaVars, streamVars, authVars, portalVars, extVars>>
notQuotaVars == <<dataVars, rlsVars, streamVars, authVars, portalVars, extVars>>
notStreamVars == <<dataVars, rlsVars, quotaVars, authVars, portalVars, extVars>>
notAuthVars == <<dataVars, rlsVars, quotaVars, streamVars, portalVars, extVars>>
coreVars == <<dataVars, rlsVars, quotaVars, streamVars, authVars, portalVars>>
notRegVars == <<coreVars, riskVars, zVars, pageVars>>
notRiskVars == <<coreVars, regVars, zVars, pageVars>>
notZVars == <<coreVars, regVars, riskVars, pageVars>>
notPageVars == <<coreVars, regVars, riskVars, zVars>>
notDataPortalVars == <<rlsVars, quotaVars, streamVars, authVars, extVars>>

\* ------------------------------------------------------------ data helpers
PatientIds == {1, 2}
RowIds == 1..MaxRows
ExistingPatients == 1..Len(patients)
ExistingRows == 1..Len(rows)

\* No AuditLog row written.
NoAudit == [userId |-> "none", action |-> "none", entityType |-> "none", entityId |-> 0]

\* A response: who asked, the status, the patients and rows in the body, and the
\* AuditLog row the handler created before it answered.
NoResp ==
  [caller |-> NoClinic, foreign |-> FALSE, status |-> 0, patients |-> {}, rows |-> {},
   audit |-> NoAudit]

\* The entity a request names in its path or body.
NoTarget == [kind |-> "none", id |-> 0]
PatientTarget(id) == [kind |-> "patient", id |-> id]
SummaryTarget(id) == [kind |-> "summary", id |-> id]

\* The request names a patient, or a summary, of another clinic than the caller's.
NamesForeign(target, clinicId) ==
  \/ /\ target.kind = "patient"
     /\ target.id \in ExistingPatients
     /\ patients[target.id].clinicId # clinicId
  \/ /\ target.kind = "summary"
     /\ target.id \in ExistingRows
     /\ rows[target.id].table = "summary"
     /\ patients[rows[target.id].patientId].clinicId # clinicId

\* res.status(status).json(body): the body's patients and rows, by id.
Reply(u, target, status, ps, rs) ==
  [caller |-> u.clinicId, foreign |-> NamesForeign(target, u.clinicId),
   status |-> status, patients |-> ps, rows |-> rs, audit |-> NoAudit]

\* writeAuditLog(prisma, { userId, action, entityType, entityId }) in the request that
\* is answered with r.
writeAuditLog(r, userId, action, entityType, entityId) ==
  [r EXCEPT !.audit = [userId |-> userId, action |-> action,
                       entityType |-> entityType, entityId |-> entityId]]

\* roleMiddleware(allowedRoles)
roleMiddleware(u, allowedRoles) == u.role \in allowedRoles

\* A faulty findPatientInClinic: the clinicId filter is left out of the where clause.
findPatientAnyClinic(patientId, clinicId) ==
  /\ patientId \in ExistingPatients
  /\ ~patients[patientId].isArchived

\* A faulty findPatientInClinic: isArchived: false is left out of the where clause.
findPatientWithArchived(patientId, clinicId) ==
  /\ patientId \in ExistingPatients
  /\ patients[patientId].clinicId = clinicId

\* prisma.patient.findFirst({ where: { id, clinicId, isArchived: false } })
findPatientInClinic(patientId, clinicId) ==
  /\ patientId \in ExistingPatients
  /\ patients[patientId].clinicId = clinicId
  /\ ~patients[patientId].isArchived

\* labs / consultations: where { id, clinicId, isArchived: false }
ensurePatientInTenant(patientId, clinicId) ==
  findPatientInClinic(patientId, clinicId)

\* vitals: where { id, clinicId }  (no isArchived filter)
ensurePatientInTenantVitals(patientId, clinicId) ==
  /\ patientId \in ExistingPatients
  /\ patients[patientId].clinicId = clinicId

RowsOf(table, patientId) ==
  { r \in ExistingRows : rows[r].table = table /\ rows[r].patientId = patientId }

InsertRow(table, patientId, by) ==
  Append(rows, [table |-> table, patientId |-> patientId, by |-> by])

\* invalidateAiStructuredInputCache(patientId): deleteCacheKey, failures swallowed
invalidateAiStructuredInputCache(patientId) ==
  { c \in cache : c.patientId # patientId }

\* The vitals, labs and consultations of a patient.
ClinicalRowsOf(patientId) ==
  { r \in ExistingRows : /\ rows[r].patientId = patientId
                         /\ rows[r].table \in {"vital", "lab", "consultation"} }

\* buildStructuredInput(patient, vitals, labs, consultations) on the rows read now.
\* Rows are only ever added, so the newest row read stands for the set of rows read.
buildStructuredInput(patientId) ==
  IF ClinicalRowsOf(patientId) = {} THEN 0
  ELSE CHOOSE r \in ClinicalRowsOf(patientId) : \A r2 \in ClinicalRowsOf(patientId) : r2 <= r

\* A job as enqueueAiSummaryJob adds it; the worker has not started on it.
QueuedJob(clinicId, patientId) ==
  [clinicId |-> clinicId, patientId |-> patientId, pc |-> "queued", input |-> 0]

\* prisma.patient.create: the row of a new patient; no portal account, no invite.
NewPatient(clinicId) ==
  [clinicId |-> clinicId, isArchived |-> FALSE, by |-> clinicId, phone |-> "staff",
   inviteToken |-> 0, inviteExpiresAt |-> "null", passwordHash |-> 0, email |-> 0]

\* ------------------------------------------------------------ Init (data)
InitData ==
  /\ patients = <<>>
  /\ rows = <<>>
  /\ resp = NoResp
  /\ cache = {}
  /\ pendingJobs = {}

\* ------------------------------------------------------ patients router
\* GET /patients
PatientsList(u) ==
  /\ roleMiddleware(u, {"ADMIN", "DOCTOR"})
  /\ resp' = Reply(u, NoTarget, 200,
                   { p \in ExistingPatients :
                       patients[p].clinicId = u.clinicId /\ ~patients[p].isArchived },
                   {})
  /\ UNCHANGED <<patients, rows, cache, pendingJobs>>
  /\ UNCHANGED notDataVars

\* POST /patients
PatientsCreate(u) ==
  /\ roleMiddleware(u, {"ADMIN", "DOCTOR"})
  /\ Len(patients) + 1 \in PatientIds
  /\ patients' = Append(patients, NewPatient(u.clinicId))
  /\ resp' = writeAuditLog(Reply(u, NoTarget, 201, {Len(patients) + 1}, {}),
                           u.id, "PATIENT_CREATE", "PATIENT", Len(patients) + 1)
  /\ UNCHANGED <<rows, cache, pendingJobs>>
  /\ UNCHANGED notDataVars

\* GET /patients/:id
PatientsGet(u, id) ==
  /\ roleMiddleware(u, {"ADMIN", "DOCTOR"})
  /\ resp' = IF findPatientInClinic(id, u.clinicId)
               THEN Reply(u, PatientTarget(id), 200, {id}, {})
               ELSE Reply(u, PatientTarget(id), 404, {}, {})
  /\ UNCHANGED <<patients, rows, cache, pendingJobs>>
  /\ UNCHANGED notDataVars

\* PUT /patients/:id
PatientsUpdate(u, id, valid) ==
  /\ roleMiddleware(u, {"ADMIN", "DOCTOR"})
  /\ IF ~valid
       THEN /\ resp' = Reply(u, PatientTarget(id), 400, {}, {})
            /\ UNCHANGED <<patients, cache>>
       ELSE IF findPatientInClinic(id, u.clinicId)
              THEN /\ patients' = [patients EXCEPT ![id].by = u.clinicId,
                                                   ![id].phone = "staff"]
                   /\ cache' = invalidateAiStructuredInputCache(id)
                   /\ resp' = writeAuditLog(Reply(u, PatientTarget(id), 200, {id}, {}),
                                            u.id, "PATIENT_UPDATE", "PATIENT", id)
              ELSE /\ resp' = Reply(u, PatientTarget(id), 404, {}, {})
                   /\ UNCHANGED <<patients, cache>>
  /\ UNCHANGED <<rows, pendingJobs>>
  /\ UNCHANGED notDataVars

\* DELETE /patients/:id  (ADMIN only; soft archive)
PatientsDelete(u, id) ==
  /\ IF ~roleMiddleware(u, {"ADMIN"})
       THEN /\ resp' = Reply(u, PatientTarget(id), 403, {}, {})
            /\ UNCHANGED <<patients, cache>>
       ELSE IF findPatientInClinic(id, u.clinicId)
         THEN /\ patients' = [patients EXCEPT ![id].isArchived = TRUE,
                                              ![id].by = u.clinicId]
              /\ cache' = invalidateAiStructuredInputCache(id)
              /\ resp' = writeAuditLog(Reply(u, PatientTarget(id), 204, {}, {}),
                                       u.id, "PATIENT_ARCHIVE", "PATIENT", id)
         ELSE /\ resp' = Reply(u, PatientTarget(id), 404, {}, {})
              /\ UNCHANGED <<patients, cache>>
  /\ UNCHANGED <<rows, pendingJobs>>
  /\ UNCHANGED notDataVars

\* ------------------------------------------------- vitals / labs / consultations
\* POST /vitals
VitalsCreate(u, patientId, valid) ==
  /\ roleMiddleware(u, {"ADMIN", "DOCTOR"})
  /\ IF ~valid
       THEN /\ resp' = Reply(u, PatientTarget(patientId), 400, {}, {})
            /\ UNCHANGED rows
       ELSE IF ensurePatientInTenantVitals(patientId, u.clinicId)
              THEN /\ Len(rows) < MaxRows
                   /\ rows' = InsertRow("vital", patientId, u.clinicId)
                   /\ resp' = writeAuditLog(
                        Reply(u, PatientTarget(patientId), 201, {}, {Len(rows) + 1}),
                        u.id, "VITAL_CREATE", "VITAL_RECORD", Len(rows) + 1)
              ELSE /\ resp' = Reply(u, PatientTarget(patientId), 404, {}, {})
                   /\ UNCHANGED rows
  /\ UNCHANGED <<patients, cache, pendingJobs>>
  /\ UNCHANGED notDataVars

\* GET /vitals/:patientId
VitalsList(u, patientId) ==
  /\ roleMiddleware(u, {"ADMIN", "DOCTOR"})
  /\ resp' = IF ensurePatientInTenantVitals(patientId, u.clinicId)
               THEN Reply(u, PatientTarget(patientId), 200, {},
                          RowsOf("vital", patientId))
               ELSE Reply(u, PatientTarget(patientId), 404, {}, {})
  /\ UNCHANGED <<patients, rows, cache, pendingJobs>>
  /\ UNCHANGED notDataVars

\* POST /labs
LabsCreate(u, patientId, valid) ==
  /\ roleMiddleware(u, {"ADMIN", "DOCTOR"})
  /\ IF ~valid
       THEN /\ resp' = Reply(u, PatientTarget(patientId), 400, {}, {})
            /\ UNCHANGED <<rows, cache>>
       ELSE IF ensurePatientInTenant(patientId, u.clinicId)
              THEN /\ Len(rows) < MaxRows
                   /\ rows' = InsertRow("lab", patientId, u.clinicId)
                   /\ cache' = invalidateAiStructuredInputCache(patientId)
                   /\ resp' = writeAuditLog(
                        Reply(u, PatientTarget(patientId), 201, {}, {Len(rows) + 1}),
                        u.id, "LAB_CREATE", "LAB_RESULT", Len(rows) + 1)
              ELSE /\ resp' = Reply(u, PatientTarget(patientId), 404, {}, {})
                   /\ UNCHANGED <<rows, cache>>
  /\ UNCHANGED <<patients, pendingJobs>>
  /\ UNCHANGED notDataVars

\* GET /labs/:patientId
LabsList(u, patientId) ==
  /\ roleMiddleware(u, {"ADMIN", "DOCTOR"})
  /\ resp' = IF ensurePatientInTenant(patientId, u.clinicId)
               THEN Reply(u, PatientTarget(patientId), 200, {},
                          RowsOf("lab", patientId))
               ELSE Reply(u, PatientTarget(patientId), 404, {}, {})
  /\ UNCHANGED <<patients, rows, cache, pendingJobs>>
  /\ UNCHANGED notDataVars

\* POST /consultations
ConsultationsCreate(u, patientId, valid) ==
  /\ roleMiddleware(u, {"ADMIN", "DOCTOR"})
  /\ IF ~valid
       THEN /\ resp' = Reply(u, PatientTarget(patientId), 400, {}, {})
            /\ UNCHANGED <<rows, cache>>
       ELSE IF ensurePatientInTenant(patientId, u.clinicId)
              THEN /\ Len(rows) < MaxRows
                   /\ rows' = InsertRow("consultation", patientId, u.clinicId)
                   /\ resp' = writeAuditLog(
                        Reply(u, PatientTarget(patientId), 201, {}, {Len(rows) + 1}),
                        u.id, "CONSULTATION_CREATE", "CONSULTATION", Len(rows) + 1)
                   /\ cache' = invalidateAiStructuredInputCache(patientId)
              ELSE /\ resp' = Reply(u, PatientTarget(patientId), 404, {}, {})
                   /\ UNCHANGED <<rows, cache>>
  /\ UNCHANGED <<patients, pendingJobs>>
  /\ UNCHANGED notDataVars

\* GET /consultations/:patientId
ConsultationsList(u, patientId) ==
  /\ roleMiddleware(u, {"ADMIN", "DOCTOR"})
  /\ resp' = IF ensurePatientInTenant(patientId, u.clinicId)
               THEN Reply(u, PatientTarget(patientId), 200, {},
                          RowsOf("consultation", patientId))
               ELSE Reply(u, PatientTarget(patientId), 404, {}, {})
  /\ UNCHANGED <<patients, rows, cache, pendingJobs>>
  /\ UNCHANGED notDataVars

\* ------------------------------------------------------------- AI router
\* POST /ai/generate-summary/:patientId. checkSubscriptionLimits runs first
\* (its counter is modelled under SpecQuota; here its verdict hasQuota is an input),
\* then the patient lookup, then the enqueue; a failed enqueue answers 503.
GenerateSummary(u, patientId, hasQuota, queueUp) ==
  /\ roleMiddleware(u, {"ADMIN", "DOCTOR"})
  /\ IF ~hasQuota
       THEN /\ resp' = Reply(u, PatientTarget(patientId),
                             429, {}, {})
            /\ UNCHANGED pendingJobs
       ELSE IF ~findPatientInClinic(patientId, u.clinicId)
         THEN /\ resp' = Reply(u, PatientTarget(patientId),
                               404, {}, {})
              /\ UNCHANGED pendingJobs
         ELSE IF ~queueUp
           THEN /\ resp' = Reply(u, PatientTarget(patientId), 503, {}, {})
                /\ UNCHANGED pendingJobs
           ELSE /\ Cardinality(pendingJobs) < MaxJobs
                /\ pendingJobs' = pendingJobs \cup {QueuedJob(u.clinicId, patientId)}
                /\ resp' = Reply(u, PatientTarget(patientId), 202, {}, {})
  /\ UNCHANGED <<patients, rows, cache>>
  /\ UNCHANGED notDataVars

\* getStructuredInputWithCache(data), up to the database reads: a cache hit returns
\* the cached value and skips the patient lookup; a miss throws "Patient not found"
\* (the attempt fails) unless the patient is a non-archived patient of data.clinicId,
\* and otherwise reads the patient's rows.
GetStructuredInput(d) ==
  /\ d \in pendingJobs
  /\ d.pc = "queued"
  /\ LET hit == { c \in cache : c.patientId = d.patientId }
     IN IF hit # {}
          THEN \E c \in hit :
                 pendingJobs' = (pendingJobs \ {d}) \cup
                   {[d EXCEPT !.pc = "ready", !.input = c.input]}
          ELSE IF findPatientInClinic(d.patientId, d.clinicId)
            THEN pendingJobs' = (pendingJobs \ {d}) \cup
                   {[d EXCEPT !.pc = "read", !.input = buildStructuredInput(d.patientId)]}
            ELSE pendingJobs' = pendingJobs \ {d}
  /\ UNCHANGED <<patients, rows, resp, cache>>
  /\ UNCHANGED notDataVars

\* getStructuredInputWithCache(data), after the reads: setCachedJson(cacheKey, ...).
SetCachedInput(d) ==
  /\ d \in pendingJobs
  /\ d.pc = "read"
  /\ cache' = invalidateAiStructuredInputCache(d.patientId) \cup
                {[patientId |-> d.patientId, input |-> d.input]}
  /\ pendingJobs' = (pendingJobs \ {d}) \cup {[d EXCEPT !.pc = "ready"]}
  /\ UNCHANGED <<patients, rows, resp>>
  /\ UNCHANGED notDataVars

\* processSummaryJob(job.data) after getStructuredInputWithCache: aISummary.create.
CreateSummary(d) ==
  /\ d \in pendingJobs
  /\ d.pc = "ready"
  /\ Len(rows) < MaxRows
  /\ pendingJobs' = pendingJobs \ {d}
  /\ rows' = InsertRow("summary", d.patientId, d.clinicId)
  /\ UNCHANGED <<patients, resp, cache>>
  /\ UNCHANGED notDataVars

\* processSummaryJob(job.data) run from start to end with no request in between:
\* getStructuredInputWithCache (hit, or lookup, reads and cache fill), aISummary.create.
ProcessSummaryJob(d) ==
  /\ d \in pendingJobs
  /\ d.pc = "queued"
  /\ pendingJobs' = pendingJobs \ {d}
  /\ IF \E c \in cache : c.patientId = d.patientId
       THEN /\ Len(rows) < MaxRows
            /\ rows' = InsertRow("summary", d.patientId, d.clinicId)
            /\ UNCHANGED cache
       ELSE IF findPatientInClinic(d.patientId, d.clinicId)
         THEN /\ Len(rows) < MaxRows
              /\ cache' = cache \cup {[patientId |-> d.patientId,
                                       input |-> buildStructuredInput(d.patientId)]}
              /\ rows' = InsertRow("summary", d.patientId, d.clinicId)
         ELSE UNCHANGED <<rows, cache>>
  /\ UNCHANGED <<patients, resp>>
  /\ UNCHANGED notDataVars

\* The key's TTL (structuredInputTtlSeconds) runs out.
CacheExpire(patientId) ==
  /\ \E c \in cache : c.patientId = patientId
  /\ cache' = invalidateAiStructuredInputCache(patientId)
  /\ UNCHANGED <<patients, rows, resp, pendingJobs>>
  /\ UNCHANGED notDataVars

\* GET /ai/summaries/patient/:patientId
SummariesByPatient(u, patientId) ==
  /\ roleMiddleware(u, {"ADMIN", "DOCTOR"})
  /\ resp' = IF findPatientInClinic(patientId, u.clinicId)
               THEN Reply(u, PatientTarget(patientId), 200,
                          {}, RowsOf("summary", patientId))
               ELSE Reply(u, PatientTarget(patientId), 404,
                          {}, {})
  /\ UNCHANGED <<patients, rows, cache, pendingJobs>>
  /\ UNCHANGED notDataVars

\* aISummary.findFirst({ where: { id, patient: { clinicId, isArchived: false } } })
findSummaryInClinic(summaryId, clinicId) ==
  /\ summaryId \in ExistingRows
  /\ rows[summaryId].table = "summary"
  /\ findPatientInClinic(rows[summaryId].patientId, clinicId)

\* GET /ai/summaries/:summaryId  (the body includes the patient's id and name)
SummaryGet(u, summaryId) ==
  /\ roleMiddleware(u, {"ADMIN", "DOCTOR"})
  /\ resp' = IF findSummaryInClinic(summaryId, u.clinicId)
               THEN Reply(u, SummaryTarget(summaryId), 200,
                          {rows[summaryId].patientId}, {summaryId})
               ELSE Reply(u, SummaryTarget(summaryId), 404, {}, {})
  /\ UNCHANGED <<patients, rows, cache, pendingJobs>>
  /\ UNCHANGED notDataVars

\* --------------------------------------------------------- analytics router
\* aISummary.findFirst({ where: { patientId }, orderBy: { createdAt: "desc" } })
LatestSummary(patientId) ==
  { r \in RowsOf("summary", patientId) :
      \A q \in RowsOf("summary", patientId) : q <= r }

\* GET /analytics/patient/:patientId
AnalyticsPatient(u, patientId) ==
  /\ roleMiddleware(u, {"ADMIN", "DOCTOR"})
  /\ resp' = IF findPatientInClinic(patientId, u.clinicId)
               THEN Reply(u, PatientTarget(patientId), 200,
                          {patientId},
                          RowsOf("vital", patientId) \cup RowsOf("lab", patientId)
                            \cup LatestSummary(patientId)
                            \cup RowsOf("consultation", patientId))
               ELSE Reply(u, PatientTarget(patientId), 404,
                          {}, {})
  /\ UNCHANGED <<patients, rows, cache, pendingJobs>>
  /\ UNCHANGED notDataVars

\* GET /analytics/clinic-risk: the latest summary of each non-archived patient of
\* the caller's clinic. The body lists those whose riskFlags are raised; riskFlags
\* are not modelled, so the body is taken to list all of them.
AnalyticsClinicRisk(u) ==
  /\ roleMiddleware(u, {"ADMIN", "DOCTOR"})
  /\ LET mine == { r \in ExistingRows :
                     /\ rows[r].table = "summary"
                     /\ patients[rows[r].patientId].clinicId = u.clinicId
                     /\ ~patients[rows[r].patientId].isArchived }
         latest == { r \in mine :
                       \A q \in mine : rows[q].patientId = rows[r].patientId => q <= r }
     IN resp' = Reply(u, NoTarget, 200, { rows[r].patientId : r \in latest }, latest)
  /\ UNCHANGED <<patients, rows, cache, pendingJobs>>
  /\ UNCHANGED notDataVars

NextData ==
  \/ \E u \in Staff : PatientsList(u)
  \/ \E u \in Staff : PatientsCreate(u)
  \/ \E u \in Staff, id \in PatientIds : PatientsGet(u, id)
  \/ \E u \in Staff, id \in PatientIds, valid \in BOOLEAN : PatientsUpdate(u, id, valid)
  \/ \E u \in Staff, id \in PatientIds : PatientsDelete(u, id)
  \/ \E u \in Staff, id \in PatientIds, valid \in BOOLEAN : VitalsCreate(u, id, valid)
  \/ \E u \in Staff, id \in PatientIds : VitalsList(u, id)
  \/ \E u \in Staff, id \in PatientIds, valid \in BOOLEAN : LabsCreate(u, id, valid)
  \/ \E u \in Staff, id \in PatientIds : LabsList(u, id)
  \/ \E u \in Staff, id \in PatientIds, valid \in BOOLEAN : ConsultationsCreate(u, id, valid)
  \/ \E u \in Staff, id \in PatientIds : ConsultationsList(u, id)
  \/ \E u \in Staff, id \in PatientIds, hasQuota \in BOOLEAN, queueUp \in BOOLEAN :
       GenerateSummary(u, id, hasQuota, queueUp)
  \/ \E d \in pendingJobs : ProcessSummaryJob(d)
  \/ \E id \in PatientIds : CacheExpire(id)
  \/ \E u \in Staff, id \in PatientIds : SummariesByPatient(u, id)
  \/ \E u \in Staff, id \in RowIds : SummaryGet(u, id)
  \/ \E u \in Staff, id \in PatientIds : AnalyticsPatient(u, id)
  \/ \E u \in Staff : AnalyticsClinicRisk(u)

\* The patients router alone.
NextPatients ==
  \/ \E u \in Staff : PatientsList(u)
  \/ \E u \in Staff : PatientsCreate(u)
  \/ \E u \in Staff, id \in PatientIds : PatientsGet(u, id)
  \/ \E u \in Staff, id \in PatientIds, valid \in BOOLEAN : PatientsUpdate(u, id, valid)
  \/ \E u \in Staff, id \in PatientIds : PatientsDelete(u, id)

\* The well-formed requests that change a patient or its clinical rows, and the worker
\* taken step by step.
NextCache ==
  \/ \E u \in Staff : PatientsCreate(u)
  \/ \E u \in Staff, id \in PatientIds : PatientsUpdate(u, id, TRUE)
  \/ \E u \in Staff, id \in PatientIds : PatientsDelete(u, id)
  \/ \E u \in Staff, id \in PatientIds : VitalsCreate(u, id, TRUE)
  \/ \E u \in Staff, id \in PatientIds : LabsCreate(u, id, TRUE)
  \/ \E u \in Staff, id \in PatientIds : ConsultationsCreate(u, id, TRUE)
  \/ \E u \in Staff, id \in PatientIds : GenerateSummary(u, id, TRUE, TRUE)
  \/ \E d \in pendingJobs : GetStructuredInput(d)
  \/ \E d \in pendingJobs : SetCachedInput(d)
  \/ \E d \in pendingJobs : CreateSummary(d)
  \/ \E id \in PatientIds : CacheExpire(id)

\* ================================================================ patient portal
\* Invite tokens generated in a run, and patient-setup requests in flight at a time.
MaxTokens == 2
MaxSetups == 2

InviteTokens == 1..MaxTokens
\* The email / password pairs patients sign up with; a hash is named by its password.
Credentials == {1, 2}

InitPortal ==
  /\ issued = 0
  /\ sessions = {}
  /\ setups = {}

\* The payload of the token signed for a patient: { id, clinicId, role: "PATIENT" }.
PatientPrincipal(p) == [id |-> p, clinicId |-> patients[p].clinicId, role |-> "PATIENT"]

\* The response of a public route (no req.user).
PublicReply(status, ps) ==
  [caller |-> NoClinic, foreign |-> FALSE, status |-> status, patients |-> ps,
   rows |-> {}, audit |-> NoAudit]

\* POST /patients/:id/invite
PatientsInvite(u, id) ==
  /\ roleMiddleware(u, {"ADMIN", "DOCTOR"})
  /\ IF ~findPatientInClinic(id, u.clinicId)
       THEN /\ resp' = Reply(u, PatientTarget(id), 404, {}, {})
            /\ UNCHANGED <<patients, issued>>
       ELSE IF patients[id].passwordHash # 0
         THEN /\ resp' = Reply(u, PatientTarget(id), 409, {}, {})
              /\ UNCHANGED <<patients, issued>>
         ELSE /\ issued < MaxTokens
              /\ issued' = issued + 1
              /\ patients' = [patients EXCEPT ![id].inviteToken = issued + 1,
                                              ![id].inviteExpiresAt = "future"]
              /\ resp' = writeAuditLog(Reply(u, PatientTarget(id), 200, {id}, {}),
                                       u.id, "PATIENT_INVITE", "PATIENT", id)
  /\ UNCHANGED <<rows, cache, pendingJobs, sessions, setups>>
  /\ UNCHANGED notDataPortalVars

\* The clock passes a patient's inviteExpiresAt.
InviteExpires(id) ==
  /\ id \in ExistingPatients
  /\ patients[id].inviteExpiresAt = "future"
  /\ patients' = [patients EXCEPT ![id].inviteExpiresAt = "past"]
  /\ UNCHANGED <<rows, resp, cache, pendingJobs>>
  /\ UNCHANGED notDataVars

\* prisma.patient.findUnique({ where: { inviteToken } })
findByInviteToken(inviteToken) ==
  { p \in ExistingPatients : patients[p].inviteToken = inviteToken }

\* prisma.patient.findUnique({ where: { email } })
findByEmail(email) ==
  { p \in ExistingPatients : patients[p].email = email }

\* The checks of POST /auth/patient-setup on a well-formed payload, in the handler's
\* order; 0 when the request passes them all.
setupChecks(inviteToken, cred) ==
  LET found == findByInviteToken(inviteToken)
  IN IF found = {} \/ \E p \in found : patients[p].isArchived THEN 404
     ELSE IF \E p \in found : patients[p].passwordHash # 0 THEN 409
     ELSE IF \E p \in found : patients[p].inviteExpiresAt = "past" THEN 410
     ELSE IF findByEmail(cred) # {} THEN 409
     ELSE 0

\* POST /auth/patient-setup, up to `await bcrypt.hash`: payload validation, the lookup
\* by invite token and the checks on the row found.
PatientSetupCheck(inviteToken, cred, valid) ==
  /\ IF ~valid
       THEN /\ resp' = PublicReply(400, {})
            /\ UNCHANGED setups
       ELSE IF setupChecks(inviteToken, cred) # 0
         THEN /\ resp' = PublicReply(setupChecks(inviteToken, cred), {})
              /\ UNCHANGED setups
         ELSE /\ Cardinality(setups) < MaxSetups
              /\ \E p \in findByInviteToken(inviteToken) :
                   setups' = setups \cup
                     {[patientId |-> p, inviteToken |-> inviteToken, cred |-> cred]}
              /\ UNCHANGED resp
  /\ UNCHANGED <<patients, rows, cache, pendingJobs, issued, sessions>>
  /\ UNCHANGED notDataPortalVars

\* POST /auth/patient-setup, from prisma.patient.update({ where: { id } }) on: the
\* update, jwt.sign and the 200. An email taken meanwhile by another row fails the
\* update on the unique index, and the request ends without a success response.
PatientSetupUpdate(s) ==
  /\ s \in setups
  /\ setups' = setups \ {s}
  /\ IF findByEmail(s.cred) \ {s.patientId} # {}
       THEN /\ resp' = PublicReply(500, {})
            /\ UNCHANGED <<patients, sessions>>
       ELSE /\ patients' = [patients EXCEPT ![s.patientId].email = s.cred,
                                            ![s.patientId].passwordHash = s.cred,
                                            ![s.patientId].inviteToken = 0,
                                            ![s.patientId].inviteExpiresAt = "null"]
            /\ sessions' = sessions \cup {s.patientId}
            /\ resp' = PublicReply(200, {s.patientId})
  /\ UNCHANGED <<rows, cache, pendingJobs, issued>>
  /\ UNCHANGED notDataPortalVars

\* POST /auth/patient-login
PatientLogin(email, password) ==
  /\ IF \E p \in findByEmail(email) :
          ~patients[p].isArchived /\ patients[p].passwordHash = password
       THEN /\ sessions' = sessions \cup findByEmail(email)
            /\ resp' = PublicReply(200, findByEmail(email))
       ELSE /\ resp' = PublicReply(401, {})
            /\ UNCHANGED sessions
  /\ UNCHANGED <<patients, rows, cache, pendingJobs, issued, setups>>
  /\ UNCHANGED notDataPortalVars

\* portalRouter.use(authMiddleware, role === "PATIENT"): the request carries the token
\* signed for patient pt.
portalGate(pt) == pt \in sessions

\* GET /portal/me
PortalMe(pt) ==
  /\ portalGate(pt)
  /\ resp' = Reply(PatientPrincipal(pt), PatientTarget(pt), 200, {pt}, {})
  /\ UNCHANGED <<patients, rows, cache, pendingJobs>>
  /\ UNCHANGED notDataVars

\* PUT /portal/me
PortalUpdateMe(pt, valid) ==
  /\ portalGate(pt)
  /\ IF ~valid
       THEN /\ resp' = Reply(PatientPrincipal(pt), PatientTarget(pt), 400, {}, {})
            /\ UNCHANGED patients
       ELSE /\ patients' = [patients EXCEPT ![pt].phone = "portal"]
            /\ resp' = Reply(PatientPrincipal(pt), PatientTarget(pt), 200, {pt}, {})
  /\ UNCHANGED <<rows, cache, pendingJobs>>
  /\ UNCHANGED notDataVars

\* PUT /portal/security
PortalSecurity(pt, valid, currentPassword, newPassword) ==
  /\ portalGate(pt)
  /\ IF ~valid \/ patients[pt].passwordHash = 0
       THEN /\ resp' = Reply(PatientPrincipal(pt), PatientTarget(pt), 400, {}, {})
            /\ UNCHANGED patients
       ELSE IF patients[pt].passwordHash # currentPassword
         THEN /\ resp' = Reply(PatientPrincipal(pt), PatientTarget(pt), 401, {}, {})
              /\ UNCHANGED patients
         ELSE /\ patients' = [patients EXCEPT ![pt].passwordHash = newPassword]
              /\ resp' = Reply(PatientPrincipal(pt), PatientTarget(pt), 200, {}, {})
  /\ UNCHANGED <<rows, cache, pendingJobs>>
  /\ UNCHANGED notDataVars

\* GET /portal/vitals, /portal/vitals/analytics, /portal/labs, /portal/appointments,
\* /portal/summaries: findMany({ where: { patientId: req.user.id, deletedAt: null } })
PortalRows(pt, table) ==
  /\ portalGate(pt)
  /\ resp' = Reply(PatientPrincipal(pt), PatientTarget(pt), 200, {}, RowsOf(table, pt))
  /\ UNCHANGED <<patients, rows, cache, pendingJobs>>
  /\ UNCHANGED notDataVars

\* The staff member whose requests are followed through the portal flows.
PortalStaff == { u \in Staff : u.id = "adminA" }

NextPortal ==
  \/ \E u \in PortalStaff : PatientsCreate(u)
  \/ \E u \in PortalStaff, id \in PatientIds : PatientsInvite(u, id)
  \/ \E u \in PortalStaff, id \in PatientIds : PatientsDelete(u, id)
  \/ \E u \in PortalStaff, id \in PatientIds : VitalsCreate(u, id, TRUE)
  \/ \E u \in PortalStaff, id \in PatientIds : VitalsList(u, id)
  \/ \E id \in PatientIds : InviteExpires(id)
  \/ \E t \in InviteTokens, cred \in Credentials, valid \in BOOLEAN :
       PatientSetupCheck(t, cred, valid)
  \/ \E s \in setups : PatientSetupUpdate(s)
  \/ \E email \in Credentials, password \in Credentials : PatientLogin(email, password)
  \/ \E pt \in sessions : PortalMe(pt)
  \/ \E pt \in sessions, valid \in BOOLEAN : PortalUpdateMe(pt, valid)
  \/ \E pt \in sessions, valid \in BOOLEAN, cur \in Credentials, new \in Credentials :
       PortalSecurity(pt, valid, cur, new)
  \/ \E pt \in sessions, table \in Tables : PortalRows(pt, table)

\* ================================================================ RLS binding
PoolSize == 2
MaxRlsReqs == 2
MaxQueries == 2

ConnIds == 1..PoolSize
RlsReqIds == 1..MaxRlsReqs

InitRls ==
  /\ conns = [k \in ConnIds |-> [busy |-> FALSE, session |-> NoClinic, txLocal |-> NoClinic]]
  /\ rreq = [r \in RlsReqIds |->
              [pc |-> "idle", clinicId |-> NoClinic, conn |-> 0, queries |-> 0,
               bound |-> "pending"]]
  /\ stmts = {}

\* current_setting('app.clinic_id') as a statement on connection k sees it: the
\* transaction-local value while one is set, the session value otherwise.
CurrentSetting(k) ==
  IF conns[k].txLocal # NoClinic THEN conns[k].txLocal ELSE conns[k].session

\* authMiddleware: req.clinicId = payload.clinicId of the verified token.
authMiddleware(r, clinicId) ==
  /\ rreq[r].pc = "idle"
  /\ rreq' = [rreq EXCEPT ![r].pc = "tenant", ![r].clinicId = clinicId]
  /\ UNCHANGED <<conns, stmts>>
  /\ UNCHANGED notRlsVars

\* tenantMiddleware, no clinic id on the request: 403, no query.
tenantMiddlewareMissing(r) ==
  /\ rreq[r].pc = "tenant"
  /\ rreq[r].clinicId = NoClinic
  /\ rreq' = [rreq EXCEPT ![r].pc = "done403", ![r].bound = "missing"]
  /\ UNCHANGED <<conns, stmts>>
  /\ UNCHANGED notRlsVars

\* The effect of `SET LOCAL app.clinic_id = ...` on the connection that runs it:
\* the value is local to the statement's (implicit) transaction.
SetLocal(c, clinicId) == [c EXCEPT !.busy = TRUE, !.txLocal = clinicId]

\* The end of a statement run outside a transaction block: its implicit transaction
\* commits, transaction-local settings are dropped, the pool takes the connection back.
ReleaseConn(c) == [c EXCEPT !.busy = FALSE, !.txLocal = NoClinic]

\* tenantMiddleware -> setRlsClinicId: prisma.$executeRawUnsafe("SET LOCAL ...") is
\* sent on a connection the pool hands out for this one statement.
setRlsClinicId(r, k) ==
  /\ rreq[r].pc = "tenant"
  /\ rreq[r].clinicId # NoClinic
  /\ ~conns[k].busy
  /\ conns' = [conns EXCEPT ![k] = SetLocal(conns[k], rreq[r].clinicId)]
  /\ rreq' = [rreq EXCEPT ![r].pc = "setting", ![r].conn = k]
  /\ UNCHANGED stmts
  /\ UNCHANGED notRlsVars

\* The SET LOCAL statement returns; .then(() => next()) enters the handler.
setRlsClinicIdDone(r) ==
  /\ rreq[r].pc = "setting"
  /\ conns' = [conns EXCEPT ![rreq[r].conn] = ReleaseConn(conns[rreq[r].conn])]
  /\ rreq' = [rreq EXCEPT ![r].pc = "handler", ![r].conn = 0, ![r].bound = "set"]
  /\ UNCHANGED stmts
  /\ UNCHANGED notRlsVars

\* The SET LOCAL statement is rejected (database unreachable, statement error): the
\* promise of setRlsClinicId rejects and .catch(next) hands the error to Express, whose
\* default error handler answers 500 (the app installs no error middleware); the
\* handler is not entered.
setRlsClinicIdFails(r) ==
  /\ rreq[r].pc = "setting"
  /\ conns' = [conns EXCEPT ![rreq[r].conn] = ReleaseConn(conns[rreq[r].conn])]
  /\ rreq' = [rreq EXCEPT ![r].pc = "done500", ![r].conn = 0, ![r].bound = "failed"]
  /\ UNCHANGED stmts
  /\ UNCHANGED notRlsVars

\* A prisma query of the handler: the pool hands out any idle connection.
HandlerQuery(r, k) ==
  /\ rreq[r].pc = "handler"
  /\ rreq[r].queries < MaxQueries
  /\ ~conns[k].busy
  /\ conns' = [conns EXCEPT ![k].busy = TRUE]
  /\ stmts' = stmts \cup {[clinicId |-> rreq[r].clinicId, binding |-> CurrentSetting(k)]}
  /\ rreq' = [rreq EXCEPT ![r].pc = "querying", ![r].conn = k,
                          ![r].queries = rreq[r].queries + 1]
  /\ UNCHANGED notRlsVars

HandlerQueryDone(r) ==
  /\ rreq[r].pc = "querying"
  /\ conns' = [conns EXCEPT ![rreq[r].conn] = ReleaseConn(conns[rreq[r].conn])]
  /\ rreq' = [rreq EXCEPT ![r].pc = "handler", ![r].conn = 0]
  /\ UNCHANGED stmts
  /\ UNCHANGED notRlsVars

\* The handler sends its response.
HandlerRespond(r) ==
  /\ rreq[r].pc = "handler"
  /\ rreq' = [rreq EXCEPT ![r].pc = "done"]
  /\ UNCHANGED <<conns, stmts>>
  /\ UNCHANGED notRlsVars

NextRls ==
  \/ \E r \in RlsReqIds, c \in Clinics \cup {NoClinic} : authMiddleware(r, c)
  \/ \E r \in RlsReqIds : tenantMiddlewareMissing(r)
  \/ \E r \in RlsReqIds, k \in ConnIds : setRlsClinicId(r, k)
  \/ \E r \in RlsReqIds : setRlsClinicIdDone(r)
  \/ \E r \in RlsReqIds : setRlsClinicIdFails(r)
  \/ \E r \in RlsReqIds, k \in ConnIds : HandlerQuery(r, k)
  \/ \E r \in RlsReqIds : HandlerQueryDone(r)
  \/ \E r \in RlsReqIds : HandlerRespond(r)

\* ================================================================ AI quota
MaxQReqs == 3
MaxTicks == 1
MonthsPerYear == 12
\* The run starts in December of year 0, so that a tick crosses a year boundary.
StartNow == 11
\* env.AI_MONTHLY_LIMIT_FREE / _PRO (positive integers), scaled down.
AI_MONTHLY_LIMIT_FREE == 1
AI_MONTHLY_LIMIT_PRO == 2

QReqIds == 1..MaxQReqs
Plans == {"free", "pro"}

\* isSameBillingMonth(left, right): same UTC year and same UTC month.
isSameBillingMonth(left, right) ==
  /\ left \div MonthsPerYear = right \div MonthsPerYear
  /\ left % MonthsPerYear = right % MonthsPerYear

\* resolveMonthlyLimit(subscriptionPlan)
resolveMonthlyLimit(subscriptionPlan) ==
  IF subscriptionPlan = "pro" THEN AI_MONTHLY_LIMIT_PRO ELSE AI_MONTHLY_LIMIT_FREE

\* A request's locals: the count findUnique returned (seen), whether the billing
\* period it read was of an earlier month (sawStale) and, if so, the `now` it read.
IdleQReq ==
  [pc |-> "idle", kind |-> "none", seen |-> 0, sawStale |-> FALSE, readNow |-> 0,
   status |-> 0, lateAdd |-> FALSE, jobAdded |-> FALSE]

\* The response is sent and the handler returns; of its locals only what the
\* period reset observed is kept.
Respond(q, status) ==
  [IdleQReq EXCEPT !.pc = "done", !.status = status, !.sawStale = q.sawStale,
                   !.seen = IF q.sawStale THEN q.seen ELSE 0,
                   !.readNow = q.readNow, !.jobAdded = q.jobAdded]

\* No quota-checked request has arrived; the clinic is new (registered this month).
QuietQuota ==
  /\ now = StartNow
  /\ clinic = [subscriptionPlan |-> "free", aiCallCount |-> 0,
               billingPeriodStart |-> StartNow]
  /\ qreq = [r \in QReqIds |-> IdleQReq]
  /\ addedNow = 0

\* A clinic of either plan, with a count within its limit, whose billing period
\* started this month or the month before.
InitQuota ==
  /\ now = StartNow
  /\ clinic \in { [subscriptionPlan |-> pl, aiCallCount |-> n, billingPeriodStart |-> b] :
                    pl \in Plans, n \in 0..AI_MONTHLY_LIMIT_PRO, b \in {StartNow - 1, StartNow} }
  /\ clinic.aiCallCount <= resolveMonthlyLimit(clinic.subscriptionPlan)
  /\ qreq = [r \in QReqIds |-> IdleQReq]
  /\ addedNow = 0

\* Requests that passed the precheck and have not been answered yet.
InFlight == { r \in QReqIds : qreq[r].pc \in {"passed", "increment"} }

\* The wall clock enters the next UTC month.
Tick ==
  /\ now < StartNow + MaxTicks
  /\ now' = now + 1
  /\ addedNow' = 0
  /\ UNCHANGED <<clinic, qreq>>
  /\ UNCHANGED notQuotaVars

\* checkSubscriptionLimits after the comparison clinic.aiCallCount < monthlyLimit,
\* made on the count `used`: next(), or 429.
AfterCompare(q, used) ==
  IF used < resolveMonthlyLimit(clinic.subscriptionPlan)
    THEN [q EXCEPT !.pc = "passed"]
    ELSE Respond(q, 429)

\* A request arrives at checkSubscriptionLimits: getClinicUsageWindow reads the clinic
\* row and the clock. In the same billing month the comparison follows at once;
\* otherwise the reset update is issued.
Precheck(r, kind) ==
  /\ qreq[r].pc = "idle"
  /\ \A r0 \in QReqIds : r0 < r => qreq[r0].pc # "idle"
  /\ LET q0 == [qreq[r] EXCEPT !.kind = kind, !.seen = clinic.aiCallCount]
         q1 == IF isSameBillingMonth(clinic.billingPeriodStart, now)
                 THEN AfterCompare(q0, clinic.aiCallCount)
                 ELSE [q0 EXCEPT !.pc = "reset", !.sawStale = TRUE, !.readNow = now]
     IN qreq' = [qreq EXCEPT ![r] = q1]
  /\ UNCHANGED <<clinic, now, addedNow>>
  /\ UNCHANGED notQuotaVars

\* A faulty ResetClinic: the reset moves the period start but keeps the count.
ResetKeepsCount(c, at) == [c EXCEPT !.billingPeriodStart = at]

\* prisma.clinic.update({ data: { aiCallCount: 0, billingPeriodStart: now } })
ResetClinic(c, at) == [c EXCEPT !.aiCallCount = 0, !.billingPeriodStart = at]

\* getClinicUsageWindow's reset lands; the comparison is made on the row it returns.
Reset(r) ==
  /\ qreq[r].pc = "reset"
  /\ clinic' = ResetClinic(clinic, qreq[r].readNow)
  /\ qreq' = [qreq EXCEPT ![r] = AfterCompare(qreq[r], clinic'.aiCallCount)]
  /\ UNCHANGED <<now, addedNow>>
  /\ UNCHANGED notQuotaVars

\* The handler's patient lookup finds no patient of the clinic: 404.
QuotaPatientNotFound(r) ==
  /\ qreq[r].pc = "passed"
  /\ qreq' = [qreq EXCEPT ![r] = Respond(qreq[r], 404)]
  /\ UNCHANGED <<clinic, now, addedNow>>
  /\ UNCHANGED notQuotaVars

\* enqueueAiSummaryJob: aiSummaryQueue.add resolves before the 2.5 s timer.
EnqueueOk(r) ==
  /\ qreq[r].pc = "passed"
  /\ qreq[r].kind = "generate"
  /\ addedNow' = addedNow + 1
  /\ qreq' = [qreq EXCEPT ![r].pc = "increment", ![r].jobAdded = TRUE]
  /\ UNCHANGED <<clinic, now>>
  /\ UNCHANGED notQuotaVars

\* enqueueAiSummaryJob: the 2.5 s timer wins the race, or the add rejects: 503.
\* When the timer won, the add is still pending (addPending).
EnqueueFails(r, addPending) ==
  /\ qreq[r].pc = "passed"
  /\ qreq[r].kind = "generate"
  /\ qreq' = [qreq EXCEPT ![r] = [Respond(qreq[r], 503) EXCEPT !.lateAdd = addPending]]
  /\ UNCHANGED <<clinic, now, addedNow>>
  /\ UNCHANGED notQuotaVars

\* The add that lost the race completes: Promise.race does not cancel it.
LateAdd(r) ==
  /\ qreq[r].lateAdd
  /\ addedNow' = addedNow + 1
  /\ qreq' = [qreq EXCEPT ![r].lateAdd = FALSE, ![r].jobAdded = TRUE]
  /\ UNCHANGED <<clinic, now>>
  /\ UNCHANGED notQuotaVars

\* POST /ai/chat: no API key (503), or the LLM call throws (500): no increment.
ChatFails(r, status) ==
  /\ qreq[r].pc = "passed"
  /\ qreq[r].kind = "chat"
  /\ qreq' = [qreq EXCEPT ![r] = Respond(qreq[r], status)]
  /\ UNCHANGED <<clinic, now, addedNow>>
  /\ UNCHANGED notQuotaVars

\* POST /ai/chat: the LLM call returns.
ChatOk(r) ==
  /\ qreq[r].pc = "passed"
  /\ qreq[r].kind = "chat"
  /\ qreq' = [qreq EXCEPT ![r].pc = "increment"]
  /\ UNCHANGED <<clinic, now, addedNow>>
  /\ UNCHANGED notQuotaVars

\* prisma.clinic.update({ data: { aiCallCount: { increment: 1 } } })
IncrementCount(c) == [c EXCEPT !.aiCallCount = c.aiCallCount + 1]

\* incrementAiUsage, then the success response (202 for generate, 200 for chat).
incrementAiUsage(r) ==
  /\ qreq[r].pc = "increment"
  /\ clinic' = IncrementCount(clinic)
  /\ qreq' = [qreq EXCEPT ![r] =
                Respond(qreq[r], IF qreq[r].kind = "generate" THEN 202 ELSE 200)]
  /\ UNCHANGED <<now, addedNow>>
  /\ UNCHANGED notQuotaVars

\* prisma.clinic.update rejects (database error): the handler's catch block answers,
\* 503 for generate-summary and 500 for chat; the job added before stays in the queue.
incrementAiUsageFails(r) ==
  /\ qreq[r].pc = "increment"
  /\ qreq' = [qreq EXCEPT ![r] =
                Respond(qreq[r], IF qreq[r].kind = "generate" THEN 503 ELSE 500)]
  /\ UNCHANGED <<clinic, now, addedNow>>
  /\ UNCHANGED notQuotaVars

NextQuota ==
  \/ Tick
  \/ \E r \in QReqIds, kind \in {"generate", "chat"} : Precheck(r, kind)
  \/ \E r \in QReqIds : Reset(r)
  \/ \E r \in QReqIds : QuotaPatientNotFound(r)
  \/ \E r \in QReqIds : EnqueueOk(r)
  \/ \E r \in QReqIds, addPending \in BOOLEAN : EnqueueFails(r, addPending)
  \/ \E r \in QReqIds : LateAdd(r)
  \/ \E r \in QReqIds, status \in {500, 503} : ChatFails(r, status)
  \/ \E r \in QReqIds : ChatOk(r)
  \/ \E r \in QReqIds : incrementAiUsage(r)
  \/ \E r \in QReqIds : incrementAiUsageFails(r)

\* ================================================================ job, events, stream
\* defaultJobOptions.attempts
attempts == 2
\* The 120 s cap of a stream, in clock ticks.
TimeoutTicks == 2

\* The job; `text` is the summaryText of the AISummary row created last and
\* `failedBy` the step of processSummaryJob that threw last.
NoJob == [state |-> "none", clinicId |-> NoClinic, attemptsMade |-> 0,
          summaryId |-> 0, failedReason |-> FALSE, text |-> <<>>, failedBy |-> "none"]

\* What the LLM provider does for one call.
LlmOutcomes == {"noKey", "throws", "noContent", "content"}
Null == "null"
Thrown == "thrown"
\* An exception leaving generateClinicalSummary, in place of its summaryText.
NoText == <<Thrown>>
\* riskFlags.disclaimer
Disclaimer == "AI-generated monitoring support only. This is not a diagnosis."

\* A faulty generateWithOpenAi: the try/catch around the call is left out.
generateWithOpenAiUncaught(llm) ==
  IF llm = "noKey" THEN Null
  ELSE IF llm = "throws" THEN Thrown
  ELSE IF llm = "noContent" THEN Null
  ELSE "llm text"

\* generateWithOpenAi(input): null without an API key, when the call throws (caught)
\* and when the response has no content.
generateWithOpenAi(llm) ==
  IF llm = "noKey" THEN Null
  ELSE IF llm = "throws" THEN Null
  ELSE IF llm = "noContent" THEN Null
  ELSE "llm text"

\* createFallbackSummary(input, riskFlags): the sections, the disclaimer last.
createFallbackSummary ==
  <<"MediBrief Clinical Trend Summary", "Monitoring Recommendations", Disclaimer>>

\* generateClinicalSummary(input).summaryText; an exception of generateWithOpenAi is
\* not caught here.
generateClinicalSummary(llm) ==
  LET aiSummary == generateWithOpenAi(llm)
  IN IF aiSummary = Thrown THEN NoText
     ELSE IF aiSummary # Null THEN <<aiSummary, Disclaimer>>
     ELSE createFallbackSummary

\* How often each cleanup effect has been performed on the stream.
NoEffects == [clearInterval |-> 0, clearTimeout |-> 0, unsubscribe |-> 0, end |-> 0]

IdleStream ==
  [pc |-> "idle", caller |-> NoClinic, snap |-> 0, frames |-> <<>>,
   conn |-> "none", subPending |-> FALSE, subActive |-> FALSE,
   heartbeat |-> FALSE, timeout |-> FALSE, cleaned |-> FALSE,
   unsubPending |-> FALSE, ended |-> FALSE, age |-> 0, hbSent |-> FALSE,
   triggers |-> {}, fx |-> NoEffects]

NoJobResp == [caller |-> NoClinic, status |-> 0, state |-> "none", summaryId |-> 0]

InitStream ==
  /\ job = NoJob
  /\ summaries = 0
  /\ audits = 0
  /\ emitted = <<>>
  /\ published = <<>>
  /\ stream = IdleStream
  /\ jresp = NoJobResp

\* enqueueAiSummaryJob({clinicId, patientId, userId}) by a request of clinic c.
enqueueAiSummaryJob(c) ==
  /\ job.state = "none"
  /\ job' = [NoJob EXCEPT !.state = "waiting", !.clinicId = c]
  /\ UNCHANGED <<summaries, audits, emitted, published, stream, jresp>>
  /\ UNCHANGED notStreamVars

\* The worker takes the job from the queue.
WorkerTake ==
  /\ job.state = "waiting"
  /\ job' = [job EXCEPT !.state = "active"]
  /\ UNCHANGED <<summaries, audits, emitted, published, stream, jresp>>
  /\ UNCHANGED notStreamVars

\* processSummaryJob returns: the summary row and its audit record are written, the
\* job is completed with returnvalue {summaryId}, and the worker's "completed"
\* listener hands the event to publishJobEvent.
WorkerCompleted(llm) ==
  /\ job.state = "active"
  /\ generateClinicalSummary(llm) # NoText
  /\ summaries' = summaries + 1
  /\ audits' = audits + 1
  /\ job' = [job EXCEPT !.state = "completed", !.summaryId = summaries + 1,
                        !.text = generateClinicalSummary(llm)]
  /\ emitted' = Append(emitted, [state |-> "completed", summaryId |-> summaries + 1,
                                 final |-> TRUE])
  /\ UNCHANGED <<published, stream, jresp>>
  /\ UNCHANGED notStreamVars

\* The job's state after a failed attempt: retried while attempts remain.
StateAfterFailure(attemptsMade) ==
  IF attemptsMade < attempts THEN "waiting" ELSE "failed"

\* processSummaryJob throws, before the summary row is created (patient not found, a
\* database error, an exception out of generateClinicalSummary) or after it (the audit
\* write fails). The worker's "failed" listener runs on every failed attempt.
WorkerFailed(rowCreated, llm) ==
  /\ job.state = "active"
  /\ rowCreated => generateClinicalSummary(llm) # NoText
  /\ summaries' = IF rowCreated THEN summaries + 1 ELSE summaries
  /\ UNCHANGED audits
  /\ LET made == job.attemptsMade + 1
     IN /\ job' = [job EXCEPT !.state = StateAfterFailure(made),
                              !.attemptsMade = made, !.failedReason = TRUE,
                              !.text = IF rowCreated THEN generateClinicalSummary(llm)
                                       ELSE @,
                              !.failedBy =
                                IF generateClinicalSummary(llm) = NoText THEN "llm"
                                ELSE IF rowCreated THEN "audit" ELSE "database"]
        /\ emitted' = Append(emitted, [state |-> "failed", summaryId |-> 0,
                                       final |-> StateAfterFailure(made) = "failed"])
  /\ UNCHANGED <<published, stream, jresp>>
  /\ UNCHANGED notStreamVars

\* The body of cleanup() past its guard: clearInterval(heartbeat),
\* clearTimeout(timeout), unsubscribe() (res.end() follows when it settles).
cleanupEffects(st) ==
  [st EXCEPT !.cleaned = TRUE, !.heartbeat = FALSE, !.timeout = FALSE,
             !.unsubPending = TRUE,
             !.fx.clearInterval = @ + 1, !.fx.clearTimeout = @ + 1,
             !.fx.unsubscribe = @ + 1]

\* A faulty cleanup(): the `if (cleaned) return` guard is left out.
cleanupUnguarded(st, by) ==
  cleanupEffects([st EXCEPT !.triggers = @ \cup {by}])

\* cleanup() of the stream handler, called by the trigger `by`.
cleanup(st, by) ==
  IF st.cleaned THEN [st EXCEPT !.triggers = @ \cup {by}]
  ELSE cleanupEffects([st EXCEPT !.triggers = @ \cup {by}])

\* res.write(`data: ...`) of a frame; nothing reaches the client once res.end() ran.
WriteFrame(st, state, summaryId) ==
  IF st.ended THEN st
  ELSE [st EXCEPT !.frames = Append(st.frames, [state |-> state, summaryId |-> summaryId])]

\* The subscriber's "message" listener: onEvent writes the frame and calls cleanup().
onEvent(st, e) == cleanup(WriteFrame(st, e.state, e.summaryId), "event")

\* publishJobEvent: redis PUBLISH reaches the subscribers whose subscription is
\* active at that moment; there is no replay.
publishJobEvent ==
  /\ emitted # <<>>
  /\ published' = Append(published, Head(emitted))
  /\ emitted' = Tail(emitted)
  /\ stream' = IF stream.subActive THEN onEvent(stream, Head(emitted)) ELSE stream
  /\ UNCHANGED <<job, summaries, audits, jresp>>
  /\ UNCHANGED notStreamVars

\* publishJobEvent: the publish throws; the error is swallowed.
publishJobEventFails ==
  /\ emitted # <<>>
  /\ emitted' = Tail(emitted)
  /\ UNCHANGED <<job, summaries, audits, published, stream, jresp>>
  /\ UNCHANGED notStreamVars

\* getAiSummaryJobStatus(jobId) as GET /ai/jobs/:jobId answers it.
getAiSummaryJobStatus(c) ==
  /\ jresp' = IF job.state = "none"
                THEN [caller |-> c, status |-> 404, state |-> "none", summaryId |-> 0]
                ELSE [caller |-> c, status |-> 200, state |-> job.state,
                      summaryId |-> job.summaryId]
  /\ UNCHANGED <<job, summaries, audits, emitted, published, stream>>
  /\ UNCHANGED notStreamVars

\* GET /ai/stream/:jobId, getAiSummaryJobStatus part 1: aiSummaryQueue.getJob(jobId)
\* loads the job hash (returnvalue, failedReason); no job: 404.
StreamGetJob(c) ==
  /\ stream.pc = "idle"
  /\ stream' = IF job.state = "none"
                 THEN [stream EXCEPT !.pc = "notFound", !.caller = c]
                 ELSE [stream EXCEPT !.pc = "gotJob", !.caller = c,
                                     !.snap = job.summaryId]
  /\ UNCHANGED <<job, summaries, audits, emitted, published, jresp>>
  /\ UNCHANGED notStreamVars

\* Part 2: job.getState(); then the handler writes the headers and the initial frame,
\* ends the response if the state is terminal, and otherwise subscribes, arms the
\* heartbeat and the timeout and registers cleanup for the request's "close".
StreamOpen ==
  /\ stream.pc = "gotJob"
  /\ LET st == WriteFrame(stream, job.state, stream.snap)
     IN stream' = IF job.state \in {"completed", "failed"}
                    THEN [st EXCEPT !.pc = "closed", !.ended = TRUE, !.fx.end = @ + 1]
                    ELSE [st EXCEPT !.pc = "open", !.conn = "connecting",
                                    !.subPending = TRUE, !.heartbeat = TRUE,
                                    !.timeout = TRUE]
  /\ UNCHANGED <<job, summaries, audits, emitted, published, jresp>>
  /\ UNCHANGED notStreamVars

\* The subscriber's own Redis connection (createRedisConnection) becomes ready.
SubConnReady ==
  /\ stream.conn = "connecting"
  /\ stream' = [stream EXCEPT !.conn = "ready"]
  /\ UNCHANGED <<job, summaries, audits, emitted, published, jresp>>
  /\ UNCHANGED notStreamVars

\* sub.subscribe(channel) takes effect on the ready connection.
SubscribeActive ==
  /\ stream.conn = "ready"
  /\ stream.subPending
  /\ stream' = [stream EXCEPT !.subPending = FALSE, !.subActive = TRUE]
  /\ UNCHANGED <<job, summaries, audits, emitted, published, jresp>>
  /\ UNCHANGED notStreamVars

\* sub.subscribe(channel) is rejected; .catch(() => {}) swallows it.
SubscribeFails ==
  /\ stream.conn = "ready"
  /\ stream.subPending
  /\ stream' = [stream EXCEPT !.subPending = FALSE]
  /\ UNCHANGED <<job, summaries, audits, emitted, published, jresp>>
  /\ UNCHANGED notStreamVars

\* setInterval(..., 15_000): a heartbeat comment is written.
Heartbeat ==
  /\ stream.heartbeat
  /\ ~stream.hbSent
  /\ stream' = [stream EXCEPT !.hbSent = TRUE]
  /\ UNCHANGED <<job, summaries, audits, emitted, published, jresp>>
  /\ UNCHANGED notStreamVars

\* Time passes on an open stream. The armed timeout fires when it is due, and a
\* command on a ready Redis connection is answered before the clock moves on.
StreamTick ==
  /\ stream.pc = "open"
  /\ stream.age <= TimeoutTicks
  /\ ~(stream.timeout /\ stream.age = TimeoutTicks)
  /\ ~(stream.unsubPending /\ stream.conn = "ready")
  /\ stream' = [stream EXCEPT !.age = stream.age + 1]
  /\ UNCHANGED <<job, summaries, audits, emitted, published, jresp>>
  /\ UNCHANGED notStreamVars

\* setTimeout(..., 120_000) fires: the timeout frame is written, then cleanup().
StreamTimeout ==
  /\ stream.timeout
  /\ stream.age = TimeoutTicks
  /\ stream' = cleanup(WriteFrame(stream, "timeout", 0), "timeout")
  /\ UNCHANGED <<job, summaries, audits, emitted, published, jresp>>
  /\ UNCHANGED notStreamVars

\* req.on("close", cleanup): the client's connection closes, before or after the
\* response was ended.
ClientClose ==
  /\ stream.conn # "none"
  /\ "close" \notin stream.triggers
  /\ stream' = cleanup(stream, "close")
  /\ UNCHANGED <<job, summaries, audits, emitted, published, jresp>>
  /\ UNCHANGED notStreamVars

\* unsubscribe(): sub.unsubscribe(channel) is answered on the ready connection (after
\* the subscribe queued before it), sub.disconnect(), then .finally(() => res.end()).
UnsubscribeDone ==
  /\ stream.unsubPending
  /\ stream.conn = "ready"
  /\ ~stream.subPending
  /\ stream' = [stream EXCEPT !.unsubPending = FALSE, !.subActive = FALSE,
                              !.conn = "closed", !.ended = TRUE, !.pc = "closed",
                              !.fx.end = @ + 1]
  /\ UNCHANGED <<job, summaries, audits, emitted, published, jresp>>
  /\ UNCHANGED notStreamVars

NextStream ==
  \/ \E c \in Clinics : enqueueAiSummaryJob(c)
  \/ WorkerTake
  \/ \E llm \in LlmOutcomes : WorkerCompleted(llm)
  \/ \E rowCreated \in BOOLEAN, llm \in LlmOutcomes : WorkerFailed(rowCreated, llm)
  \/ publishJobEvent
  \/ publishJobEventFails
  \/ \E c \in Clinics : getAiSummaryJobStatus(c)
  \/ \E c \in Clinics : StreamGetJob(c)
  \/ StreamOpen
  \/ SubConnReady
  \/ SubscribeActive
  \/ SubscribeFails
  \/ Heartbeat
  \/ StreamTick
  \/ StreamTimeout
  \/ ClientClose
  \/ UnsubscribeDone

\* ================================================================ authentication
\* The routes mounted behind authMiddleware, with the roles their own gate lets through.
StreamRoute == "GET /ai/stream/:jobId"

AdminRoutes == {"DELETE /patients/:id", "GET /audit"}

StaffRoutes ==
  {"GET /patients", "POST /patients", "GET /patients/:id", "PUT /patients/:id",
   "POST /patients/:id/invite", "POST /vitals", "GET /vitals/:patientId",
   "POST /labs", "GET /labs/:patientId", "POST /consultations",
   "GET /consultations/:patientId", "POST /ai/generate-summary/:patientId",
   "GET /ai/jobs/:jobId", StreamRoute, "GET /ai/summaries/patient/:patientId",
   "GET /ai/summaries/:summaryId", "GET /analytics/patient/:patientId",
   "GET /analytics/clinic-risk"}

PortalRoutes ==
  {"GET /portal/me", "PUT /portal/me", "PUT /portal/security", "GET /portal/vitals",
   "GET /portal/vitals/analytics", "GET /portal/labs", "GET /portal/appointments",
   "GET /portal/summaries"}

\* Routes behind authMiddleware and tenantMiddleware whose handlers have no
\* roleMiddleware: clinicRouter.get /me and usersRouter.get /me.
UngatedRoutes == {"GET /clinic/me", "GET /users/me"}

ProtectedRoutes == AdminRoutes \cup StaffRoutes \cup PortalRoutes \cup UngatedRoutes

AuthRole == {"ADMIN", "DOCTOR", "PATIENT"}

\* What a request carries in a place: nothing, a token that verifies, one that does not.
Carried == {"none", "valid", "invalid"}

allowedRoles(route) ==
  IF route \in AdminRoutes THEN {"ADMIN"}
  ELSE IF route \in StaffRoutes THEN {"ADMIN", "DOCTOR"}
  ELSE IF route \in UngatedRoutes THEN AuthRole
  ELSE {"PATIENT"}

\* What the handler answers to a request that passed the gates, where the token alone
\* decides it: GET /clinic/me finds the clinic of req.clinicId (200); GET /users/me
\* looks req.user.id up in the User table, where a staff id is found (200) and a
\* patient id is not (404). 0 stands for any other handler having been entered.
handlerStatus(route, role) ==
  IF route = "GET /clinic/me" THEN 200
  ELSE IF route = "GET /users/me" THEN (IF role = "PATIENT" THEN 404 ELSE 200)
  ELSE 0

\* The token authMiddleware verifies: the Authorization header's Bearer token, else the
\* token query parameter.
tokenOf(header, query) == IF header # "none" THEN header ELSE query

NoRequest ==
  [route |-> "none", header |-> "none", query |-> "none", user |-> "none", status |-> 0]

InitAuth == areq = NoRequest

\* A request to a protected route: authMiddleware (401 without a token that verifies,
\* else req.user = payload), then the route's role gate (403); status 0 stands for the
\* request having reached its handler.
ProtectedRequest(route, header, query, role) ==
  /\ areq' =
       IF tokenOf(header, query) # "valid"
         THEN [route |-> route, header |-> header, query |-> query,
               user |-> "none", status |-> 401]
         ELSE [route |-> route, header |-> header, query |-> query, user |-> role,
               status |-> IF role \in allowedRoles(route)
                            THEN handlerStatus(route, role) ELSE 403]
  /\ UNCHANGED notAuthVars

NextAuth ==
  \E route \in ProtectedRoutes, header \in Carried, query \in Carried, role \in AuthRole :
    ProtectedRequest(route, header, query, role)

\* ================================================================ registration
\* POST /auth/register-clinic: two lookups, then bcrypt, then one transaction that
\* creates the Clinic, the ADMIN user and the REGISTER_CLINIC audit record.
MaxRegs == 2
RegIds == 1..MaxRegs
ClinicEmails == {"c1", "c2"}
AdminEmails == {"a1", "a2"}

NoRegistration ==
  [pc |-> "idle", clinicEmail |-> "none", adminEmail |-> "none",
   existing |-> FALSE, existingClinic |-> FALSE, status |-> 0]

InitReg ==
  /\ clinicTable = {}
  /\ userTable = {}
  /\ auditLogTable = {}
  /\ registrations = [r \in RegIds |-> NoRegistration]

\* prisma.user.findUnique({ where: { email } }) / prisma.clinic.findUnique: is there a
\* committed row with that email?
findUserByEmail(email) == \E u \in userTable : u.email = email
findClinicByEmail(email) == \E c \in clinicTable : c.email = email

\* The request arrives; registerClinicSchema.safeParse answers 400 to a bad payload.
RegisterParse(r, clinicEmail, adminEmail, valid) ==
  /\ registrations[r].pc = "idle"
  /\ registrations' =
       [registrations EXCEPT ![r] =
          IF valid
            THEN [@ EXCEPT !.pc = "findUser", !.clinicEmail = clinicEmail,
                           !.adminEmail = adminEmail]
            ELSE [@ EXCEPT !.pc = "done", !.status = 400]]
  /\ UNCHANGED <<clinicTable, userTable, auditLogTable>>
  /\ UNCHANGED notRegVars

\* const existing = await prisma.user.findUnique(...)
RegisterFindUser(r) ==
  /\ registrations[r].pc = "findUser"
  /\ registrations' =
       [registrations EXCEPT ![r] =
          [@ EXCEPT !.pc = "findClinic",
                    !.existing = findUserByEmail(registrations[r].adminEmail)]]
  /\ UNCHANGED <<clinicTable, userTable, auditLogTable>>
  /\ UNCHANGED notRegVars

\* const existingClinic = await prisma.clinic.findUnique(...), then the two 409 answers;
\* a request that passes them goes on to bcrypt.hash and the transaction.
RegisterFindClinic(r) ==
  /\ registrations[r].pc = "findClinic"
  /\ LET existingClinic == findClinicByEmail(registrations[r].clinicEmail)
     IN registrations' =
          [registrations EXCEPT ![r] =
             IF registrations[r].existing \/ existingClinic
               THEN [@ EXCEPT !.pc = "done", !.existingClinic = existingClinic,
                              !.status = 409]
               ELSE [@ EXCEPT !.pc = "transaction"]]
  /\ UNCHANGED <<clinicTable, userTable, auditLogTable>>
  /\ UNCHANGED notRegVars

\* prisma.$transaction: tx.clinic.create, tx.user.create, tx.auditLog.create. Clinic.email
\* and User.email are unique: a create that meets a committed row with the same email
\* throws, the transaction rolls back and the catch block answers 500.
RegisterTransaction(r) ==
  /\ registrations[r].pc = "transaction"
  /\ IF \/ findClinicByEmail(registrations[r].clinicEmail)
        \/ findUserByEmail(registrations[r].adminEmail)
       THEN /\ registrations' =
                 [registrations EXCEPT ![r] = [@ EXCEPT !.pc = "done", !.status = 500]]
            /\ UNCHANGED <<clinicTable, userTable, auditLogTable>>
       ELSE /\ clinicTable' =
                 clinicTable \cup {[email |-> registrations[r].clinicEmail, by |-> r]}
            /\ userTable' =
                 userTable \cup
                   {[email |-> registrations[r].adminEmail, role |-> "ADMIN", by |-> r]}
            /\ auditLogTable' =
                 auditLogTable \cup
                   {[action |-> "REGISTER_CLINIC", entityType |-> "CLINIC", by |-> r]}
            /\ registrations' =
                 [registrations EXCEPT ![r] = [@ EXCEPT !.pc = "done", !.status = 201]]
  /\ UNCHANGED notRegVars

NextReg ==
  \/ \E r \in RegIds, clinicEmail \in ClinicEmails, adminEmail \in AdminEmails,
        valid \in BOOLEAN : RegisterParse(r, clinicEmail, adminEmail, valid)
  \/ \E r \in RegIds : RegisterFindUser(r)
  \/ \E r \in RegIds : RegisterFindClinic(r)
  \/ \E r \in RegIds : RegisterTransaction(r)

\* ================================================================ composite risk score
\* computeCompositeRiskScore(vitalsAnalytics, riskFlags, labFlags, recentSymptoms).
MaxAnomalies == 6
MaxLabFlags == 2
MaxSymptoms == 5

flagKeys == {"highBloodPressureTrend", "risingGlucoseTrend", "tachycardiaTrend",
             "rapidWeightChange"}
LabStatuses == {"normal", "low", "high", "unknown"}
\* A symptom string either matches concerningPattern or does not.
SymptomKinds == {"chest pain", "cough"}
concerningPattern(s) == s = "chest pain"

SeqsUpTo(S, n) == UNION { [1..k -> S] : k \in 0..n }

\* RISK_WEIGHTS, in hundredths.
RISK_WEIGHTS ==
  [vitalAnomalies |-> 30, aiRiskFlags |-> 30, labOutOfRange |-> 25, symptomConcern |-> 15]

Max(a, b) == IF a >= b THEN a ELSE b
Min(a, b) == IF a <= b THEN a ELSE b

clampOff(value, min, max) == value

clamp(value, min, max) == Max(min, Min(max, value))

\* Math.round of the fraction num / den (den > 0, num >= 0): the nearest integer, a tie
\* going up.
MathRound(num, den) == (2 * num + den) \div (2 * den)

\* The results Math.round can give for the floating-point sum of weight * score whose
\* exact value is num / den: the nearest integer; when the exact value lies half way
\* between two integers the rounding error of the double sum decides, so either.
MathRoundOfSum(num, den) ==
  IF (2 * num) % (2 * den) = den
    THEN {num \div den, num \div den + 1}
    ELSE {MathRound(num, den)}

Count(seq, Test(_)) == Cardinality({ i \in 1..Len(seq) : Test(seq[i]) })

vitalSubScore(in) == clamp(in.anomalyCount * 20, 0, 100)

aiSubScore(in) == clamp(Cardinality(in.riskFlags \cap flagKeys) * 25, 0, 100)

labSubScore(in) ==
  LET Evaluated(st) == st # "unknown"
      OutOfRange(st) == st = "low" \/ st = "high"
      evaluatedLabs == Count(in.labFlags, Evaluated)
      outOfRange == Count(in.labFlags, OutOfRange)
  IN IF evaluatedLabs > 0
       THEN clamp(MathRound(outOfRange * 100, evaluatedLabs), 0, 100)
       ELSE 0

symptomSubScore(in) ==
  clamp(Count(in.recentSymptoms, concerningPattern) * 25, 0, 100)

contributorsOf(in) ==
  << [source |-> "vital_anomalies", weight |-> RISK_WEIGHTS.vitalAnomalies,
      score |-> vitalSubScore(in)],
     [source |-> "ai_risk_flags", weight |-> RISK_WEIGHTS.aiRiskFlags,
      score |-> aiSubScore(in)],
     [source |-> "lab_out_of_range", weight |-> RISK_WEIGHTS.labOutOfRange,
      score |-> labSubScore(in)],
     [source |-> "concerning_symptoms", weight |-> RISK_WEIGHTS.symptomConcern,
      score |-> symptomSubScore(in)] >>

\* contributors.reduce((sum, c) => sum + c.weight * c.score, 0), in hundredths.
weightedSum(contributors) ==
  contributors[1].weight * contributors[1].score
  + contributors[2].weight * contributors[2].score
  + contributors[3].weight * contributors[3].score
  + contributors[4].weight * contributors[4].score

tierOf(score) ==
  IF score >= 75 THEN "critical"
  ELSE IF score >= 50 THEN "high"
  ELSE IF score >= 25 THEN "moderate"
  ELSE "low"

\* The results the call can return for these arguments.
computeCompositeRiskScore(in) ==
  LET contributors == contributorsOf(in)
  IN { [score |-> score, tier |-> tierOf(score), contributors |-> contributors] :
         score \in MathRoundOfSum(weightedSum(contributors), 100) }

RiskInputs ==
  [anomalyCount : 0..MaxAnomalies, riskFlags : SUBSET flagKeys,
   labFlags : SeqsUpTo(LabStatuses, MaxLabFlags),
   recentSymptoms : SeqsUpTo(SymptomKinds, MaxSymptoms)]

NoRiskResult == [score |-> -1, tier |-> "none", contributors |-> << >>]

QuietRisk ==
  /\ riskInput = [anomalyCount |-> 0, riskFlags |-> {}, labFlags |-> << >>,
                  recentSymptoms |-> << >>]
  /\ riskResult = NoRiskResult

InitRisk ==
  /\ riskInput \in RiskInputs
  /\ riskResult = NoRiskResult

ComputeRisk ==
  /\ riskResult = NoRiskResult
  /\ riskResult' \in computeCompositeRiskScore(riskInput)
  /\ UNCHANGED riskInput
  /\ UNCHANGED notRiskVars

NextRisk == ComputeRisk

\* ================================================================ risk flags (z-score)
\* The worker's path from the VitalRecord rows to a risk flag: findMany orderBy
\* recordedAt desc, buildStructuredInput's trend array, calculateLatestZScore,
\* buildRiskFlags.
MaxReadings == 5
vitalsTake == 20
trendLength == 10
minTrendLength == 4

\* A reading's value string: a number, or text Number.parseFloat cannot read.
NonNumeric == -1
ReadingValues == {1, 2, 3, 9, NonNumeric}
FlaggedTypes == {"BP", "WEIGHT"}

SubSeqTo(seq, n) == SubSeq(seq, 1, Min(n, Len(seq)))
ReverseSeq(seq) == [i \in 1..Len(seq) |-> seq[Len(seq) + 1 - i]]

RECURSIVE SumSeq(_)
SumSeq(seq) == IF seq = << >> THEN 0 ELSE Head(seq) + SumSeq(Tail(seq))

\* prisma.vitalRecord.findMany({ orderBy: { recordedAt: "desc" }, take: 20 }) on rows
\* given in the order they were recorded: newest first.
findManyVitals(chronological) == SubSeqTo(ReverseSeq(chronological), vitalsTake)

\* toNumericValues: parseFloat each entry, drop the ones that are not finite.
toNumericValues(values) ==
  LET IsFinite(v) == v # NonNumeric IN SelectSeq(values, IsFinite)

\* buildStructuredInput's trend of one vital type: the fetched values, first 10, numeric.
trendOf(vitals) == toNumericValues(SubSeqTo(vitals, trendLength))

NoZScore == [isNull |-> TRUE, num |-> 0, den2 |-> 1]

\* latest = values[values.length - 1]
latestOf(values) == values[Len(values)]
\* baseline = values.slice(0, -1)
baselineOf(values) == SubSeq(values, 1, Len(values) - 1)

\* The z-score of `latest` against `baseline` as the exact fraction num / sqrt(den2):
\* with n, S, Q the baseline's length, sum and sum of squares, latest - mean is
\* (n * latest - S) / n and stdDev is sqrt(n * Q - S * S) / n; null when stdDev = 0.
zScore(latest, baseline) ==
  LET n == Len(baseline)
      S == SumSeq(baseline)
      Q == SumSeq([i \in 1..n |-> baseline[i] * baseline[i]])
  IN IF n * Q - S * S = 0 THEN NoZScore
     ELSE [isNull |-> FALSE, num |-> n * latest - S, den2 |-> n * Q - S * S]

calculateLatestZScore(values) ==
  IF Len(values) < minTrendLength THEN NoZScore
  ELSE zScore(latestOf(values), baselineOf(values))

\* Number(z.toFixed(2)) >= 2, i.e. z >= 1.995, for z = num / sqrt(den2).
zAtLeast2(z) == z.num >= 0 /\ z.num * z.num * 1000000 >= 3980025 * z.den2
\* Math.abs(Number(z.toFixed(2))) >= 2
zAbsAtLeast2(z) == z.num * z.num * 1000000 >= 3980025 * z.den2

\* buildRiskFlags: highBloodPressureTrend for BP (glucose and heart rate alike),
\* rapidWeightChange for WEIGHT.
buildRiskFlags(type, trend) ==
  LET z == calculateLatestZScore(trend)
  IN IF z.isNull THEN FALSE
     ELSE IF type = "WEIGHT" THEN zAbsAtLeast2(z)
     ELSE zAtLeast2(z)

ZInputs ==
  [type : FlaggedTypes,
   readings : UNION { [1..k -> ReadingValues] : k \in 0..MaxReadings }]

NoFlag == [done |-> FALSE, flag |-> FALSE]

QuietZ ==
  /\ zInput = [type |-> "BP", readings |-> << >>]
  /\ zFlag = NoFlag

InitZ ==
  /\ zInput \in ZInputs
  /\ zFlag = NoFlag

\* getStructuredInputWithCache on a cache miss, then buildRiskFlags on its result.
WorkerRiskFlag ==
  /\ zFlag = NoFlag
  /\ zFlag' =
       [done |-> TRUE,
        flag |-> buildRiskFlags(zInput.type, trendOf(findManyVitals(zInput.readings)))]
  /\ UNCHANGED zInput
  /\ UNCHANGED notZVars

NextZ == WorkerRiskFlag

\* ================================================================ patient list pages
\* GET /patients?cursor=&limit= : findMany where { clinicId, isArchived: false },
\* orderBy { createdAt: "desc" }, take limit + 1, cursor { id } with skip 1.
MaxPagePatients == 3
MaxLimit == 2
MaxPages == 4
CreatedAts == {1, 2}

PageIds == 1..MaxPagePatients
Limits == 1..MaxLimit
PageCaller == "A"

NoCursor == 0

\* The rows that can be in the Patient table: ids are UUIDs and say nothing about the
\* order of creation; createdAt is a millisecond timestamp, which two rows can share.
PatientTables ==
  { { [id |-> i, clinicId |-> f[i].clinicId, createdAt |-> f[i].createdAt,
       isArchived |-> f[i].isArchived] : i \in { k \in PageIds : f[k].present } } :
      f \in [PageIds -> [present : BOOLEAN, clinicId : Clinics, createdAt : CreatedAts,
                         isArchived : BOOLEAN]] }

\* where: { clinicId: req.clinicId, isArchived: false }
matchingPatients(clinicId) ==
  { p \in patientRows : p.clinicId = clinicId /\ ~p.isArchived }

\* The orders in which the database can return the rows S under ORDER BY createdAt
\* DESC: rows with equal createdAt come in any order.
orderByCreatedAtDesc(S) ==
  { f \in [1..Cardinality(S) -> S] :
      /\ \A i, j \in 1..Cardinality(S) : i # j => f[i] # f[j]
      /\ \A i, j \in 1..Cardinality(S) : i < j => f[i].createdAt >= f[j].createdAt }

DropFirst(seq, n) == SubSeq(seq, n + 1, Len(seq))

\* prisma.patient.findMany: without a cursor the matching rows in order, the first
\* `take`; with a cursor the matching rows from the cursor row's position in the order
\* on (createdAt not after the cursor row's), skip 1, the first `take`.
findManyPatients(clinicId, cursor, take) ==
  LET from == IF cursor = NoCursor THEN matchingPatients(clinicId)
              ELSE { p \in matchingPatients(clinicId) :
                       \E c \in patientRows : c.id = cursor /\ p.createdAt <= c.createdAt }
      skip == IF cursor = NoCursor THEN 0 ELSE 1
  IN { SubSeqTo(DropFirst(f, skip), take) : f \in orderByCreatedAtDesc(from) }

IdsOf(seq) == [i \in 1..Len(seq) |-> seq[i].id]

\* The handler's answer for the rows findMany returned: { data, nextCursor }.
pageOf(found, limit) ==
  LET hasMore == Len(found) > limit
      data == IF hasMore THEN SubSeq(found, 1, limit) ELSE found
  IN [data |-> IdsOf(data),
      nextCursor |-> IF hasMore THEN data[Len(data)].id ELSE NoCursor]

QuietPage ==
  /\ patientRows = {}
  /\ walk = [limit |-> 1, cursor |-> NoCursor, pages |-> << >>, done |-> FALSE]

InitPage ==
  /\ patientRows \in PatientTables
  /\ walk \in [limit : Limits, cursor : {NoCursor}, pages : {<< >>}, done : {FALSE}]

\* GET /patients with the walk's limit and the cursor of the previous page; the client
\* stops when nextCursor is null.
PatientsListPage ==
  /\ ~walk.done
  /\ Len(walk.pages) < MaxPages
  /\ \E found \in findManyPatients(PageCaller, walk.cursor, walk.limit + 1) :
       LET page == pageOf(found, walk.limit)
       IN walk' = [walk EXCEPT !.pages = Append(@, page),
                               !.cursor = page.nextCursor,
                               !.done = page.nextCursor = NoCursor]
  /\ UNCHANGED patientRows
  /\ UNCHANGED notPageVars

NextPage == PatientsListPage

\* ================================================================ failed creates
\* The try blocks of the create handlers: the entity insert, then writeAuditLog on the
\* same client outside any transaction, then (labs, consultations) the cache
\* invalidation; the catch block answers 500 whichever of them threw.
CreateTables == {"vital", "lab", "consultation"}

\* POST /patients, the try block throws: prisma.patient.create rejected (nothing is
\* persisted), or it succeeded and writePatientAuditLog rejected (the row stays).
PatientsCreateFails(u, created) ==
  /\ roleMiddleware(u, {"ADMIN", "DOCTOR"})
  /\ IF created
       THEN /\ Len(patients) + 1 \in PatientIds
            /\ patients' = Append(patients, NewPatient(u.clinicId))
       ELSE UNCHANGED patients
  /\ resp' = Reply(u, NoTarget, 500, {}, {})
  /\ UNCHANGED <<rows, cache, pendingJobs>>
  /\ UNCHANGED notDataVars

\* POST /vitals, /labs, /consultations for a patient the tenant check accepted, the try
\* block throws: the create rejected, or it succeeded and writeAuditLog rejected; the
\* cache invalidation that follows the audit write is not reached.
RowCreateFails(u, table, patientId, created) ==
  /\ roleMiddleware(u, {"ADMIN", "DOCTOR"})
  /\ IF table = "vital" THEN ensurePatientInTenantVitals(patientId, u.clinicId)
     ELSE ensurePatientInTenant(patientId, u.clinicId)
  /\ IF created
       THEN /\ Len(rows) < MaxRows
            /\ rows' = InsertRow(table, patientId, u.clinicId)
       ELSE UNCHANGED rows
  /\ resp' = Reply(u, PatientTarget(patientId), 500, {}, {})
  /\ UNCHANGED <<patients, cache, pendingJobs>>
  /\ UNCHANGED notDataVars

NextCreate ==
  \/ \E u \in Staff : PatientsCreate(u)
  \/ \E u \in Staff, patientId \in PatientIds, valid \in BOOLEAN :
       VitalsCreate(u, patientId, valid)
  \/ \E u \in Staff, patientId \in PatientIds, valid \in BOOLEAN :
       LabsCreate(u, patientId, valid)
  \/ \E u \in Staff, patientId \in PatientIds, valid \in BOOLEAN :
       ConsultationsCreate(u, patientId, valid)
  \/ \E u \in Staff, created \in BOOLEAN : PatientsCreateFails(u, created)
  \/ \E u \in Staff, table \in CreateTables, patientId \in PatientIds,
        created \in BOOLEAN : RowCreateFails(u, table, patientId, created)

\* ================================================================ specifications
\* The initial state: every part as it is after construction; the clinic row is the
\* canonical one (QuietQuota) or any of the stored quota states (InitQuota).
InitExt == InitReg /\ QuietRisk /\ QuietZ /\ QuietPage
InitAnyRisk ==
  InitData /\ InitRls /\ QuietQuota /\ InitStream /\ InitAuth /\ InitPortal /\ InitReg
    /\ InitRisk /\ QuietZ /\ QuietPage
InitAnyZ ==
  InitData /\ InitRls /\ QuietQuota /\ InitStream /\ InitAuth /\ InitPortal /\ InitReg
    /\ QuietRisk /\ InitZ /\ QuietPage
InitAnyPage ==
  InitData /\ InitRls /\ QuietQuota /\ InitStream /\ InitAuth /\ InitPortal /\ InitReg
    /\ QuietRisk /\ QuietZ /\ InitPage
Init ==
  InitData /\ InitRls /\ QuietQuota /\ InitStream /\ InitAuth /\ InitPortal /\ InitExt
InitAnyClinic ==
  InitData /\ InitRls /\ InitQuota /\ InitStream /\ InitAuth /\ InitPortal /\ InitExt

SpecData == Init /\ [][NextData]_vars
SpecRls == Init /\ [][NextRls]_vars
SpecQuota == InitAnyClinic /\ [][NextQuota]_vars
SpecStream == Init /\ [][NextStream]_vars
SpecCache == Init /\ [][NextCache]_vars
SpecAuth == Init /\ [][NextAuth]_vars
SpecPatients == Init /\ [][NextPatients]_vars
SpecPortal == Init /\ [][NextPortal]_vars
SpecReg == Init /\ [][NextReg]_vars
SpecRisk == InitAnyRisk /\ [][NextRisk]_vars
SpecZ == InitAnyZ /\ [][NextZ]_vars
SpecPage == InitAnyPage /\ [][NextPage]_vars
SpecCreate == Init /\ [][NextCreate]_vars

\* ================================================================ claims
PatientClinic(p) == patients[p].clinicId
RowClinic(r) == patients[rows[r].patientId].clinicId

\* Every patient and row in the last response body belongs to the caller's clinic.
BodyFromCallersClinic ==
  /\ \A p \in resp.patients : PatientClinic(p) = resp.caller
  /\ \A r \in resp.rows : RowClinic(r) = resp.caller

\* Every patient was last written, and every row was created, on behalf of the
\* clinic it belongs to.
WritesStayInClinic ==
  /\ \A p \in ExistingPatients : patients[p].by = PatientClinic(p)
  /\ \A r \in ExistingRows : rows[r].by = RowClinic(r)

\* C1 as stated: a staff request that names a patient or summary of another clinic is
\* answered 404, returns nothing and changes nothing of that clinic, and every response
\* body holds only rows whose patient.clinicId is the caller's clinicId.
C1_CrossTenantAlways404 ==
  /\ resp.foreign => (resp.status = 404 /\ resp.patients = {} /\ resp.rows = {})
  /\ BodyFromCallersClinic
  /\ WritesStayInClinic

\* C1 amended: such a request is answered 404, or 400 / 403 / 429 when validation, the
\* role check or the quota precheck rejects it before the lookup; it returns nothing and
\* changes nothing of the other clinic, and every body holds only rows of the caller's
\* clinic.
C1_CrossTenantIsolated ==
  /\ resp.foreign => (resp.status \in {400, 403, 404, 429} /\ resp.patients = {} /\ resp.rows = {})
  /\ BodyFromCallersClinic
  /\ WritesStayInClinic

\* A request naming a patient of another clinic that has rows was answered 404.
C1_Witness ==
  /\ resp.foreign
  /\ resp.status = 404
  /\ \E r \in ExistingRows : RowClinic(r) # resp.caller
  /\ \E p \in ExistingPatients : PatientClinic(p) = resp.caller

\* C2: every statement a handler executed ran on a session whose app.clinic_id was
\* the clinicId of the request's token.
C2_StatementsRunUnderOwnBinding ==
  \A st \in stmts : st.binding = st.clinicId

\* C3: the status of a job (GET /ai/jobs/:jobId) and the frames of its stream
\* (GET /ai/stream/:jobId) are disclosed only to a caller of the clinic that
\* enqueued the job.
C3_JobDisclosedToOwnerOnly ==
  /\ jresp.status = 200 => jresp.caller = job.clinicId
  /\ stream.frames # <<>> => stream.caller = job.clinicId

\* C4: within one UTC billing month aiCallCount never exceeds monthlyLimit(plan).
C4_CountWithinLimit ==
  now = StartNow => clinic.aiCallCount <= resolveMonthlyLimit(clinic.subscriptionPlan)

AllRequestsFinished == \A r \in QReqIds : qreq[r].pc \in {"idle", "done"}

\* C5: once all requests have finished, aiCallCount is at least the number of jobs
\* enqueued for the clinic in the current month.
C5_NoUnderCount ==
  AllRequestsFinished => clinic.aiCallCount >= addedNow

\* C6: at every rejection with 429, aiCallCount is at most monthlyLimit(plan) plus the
\* number of requests that passed the precheck and have not finished.
C6_RejectionBound ==
  [][\A r \in QReqIds :
       (/\ qreq[r].pc # "done"
        /\ qreq'[r].pc = "done"
        /\ qreq'[r].status = 429
        /\ now = StartNow)
       => clinic'.aiCallCount <=
            resolveMonthlyLimit(clinic'.subscriptionPlan) + Cardinality(InFlight')]_vars

Alone(r) == \A r2 \in QReqIds \ {r} : qreq[r2].pc = "idle"

\* C7: a request that finds billingPeriodStart in an earlier UTC month has the count
\* reset to 0 and the period start set to its `now` before the comparison, so it is never
\* rejected for quota; when it is the only request, the count is 0 after the reset and
\* 1 after its accepted generate-summary call.
C7_ResetBeforeCompare ==
  \A r \in QReqIds :
    qreq[r].sawStale =>
      /\ qreq[r].status # 429
      /\ (Alone(r) /\ qreq[r].pc # "reset") =>
           /\ clinic.billingPeriodStart = qreq[r].readNow
           /\ clinic.aiCallCount =
                IF qreq[r].pc = "done" /\ qreq[r].status \in {200, 202} THEN 1 ELSE 0

\* A clinic at its limit in the previous month was accepted, and the counter is 1.
C7_Witness ==
  \E r \in QReqIds :
    /\ Alone(r)
    /\ qreq[r].sawStale
    /\ qreq[r].seen = resolveMonthlyLimit(clinic.subscriptionPlan)
    /\ qreq[r].pc = "done"
    /\ qreq[r].status = 202
    /\ clinic.aiCallCount = 1

\* C8: at most one terminal event is published per job, and a "failed" event is
\* published only when the job has exhausted its attempts.
C8_OneTerminalEvent ==
  /\ Len(published) <= 1
  /\ \A i \in 1..Len(published) : published[i].state = "failed" => published[i].final

HasFrame(st, state) == \E i \in 1..Len(st.frames) : st.frames[i].state = state

\* C9: a stream whose subscription is active does not run into its timeout frame once
\* the job has completed and its "completed" event has been published: the client
\* gets the terminal frame whatever the order of completion and subscription.
C9_TerminalFrameNotTimeout ==
  [][(~HasFrame(stream, "timeout") /\ HasFrame(stream', "timeout"))
       => ~(/\ job.state = "completed"
            /\ stream.subActive
            /\ \E i \in 1..Len(published) : published[i].state = "completed")]_vars

\* C10: an opened stream is closed once its 2-minute cap has passed, and a closed
\* stream has carried at least one data frame, also when the subscription fails.
C10_ClosesWithinCap ==
  /\ stream.age > TimeoutTicks => stream.ended
  /\ stream.ended => stream.frames # <<>>

C12_PersistsAtMostOnce ==
  /\ summaries <= 1
  /\ audits <= 1

HasDisclaimer(text) == \E i \in 1..Len(text) : text[i] = Disclaimer

InputIncludes(input, r) == r <= input

\* C14: every job whose processing starts after POST /vitals returned 201 builds its
\* structured input from data that includes that vital: the input a job starts with
\* includes every vital of the patient that exists at that moment.
C14_JobSeesNewVital ==
  [][\A d \in pendingJobs :
       (d.pc = "queued" /\ d \notin pendingJobs')
       => \A started \in pendingJobs' \ pendingJobs :
            \A r \in RowsOf("vital", started.patientId) :
              InputIncludes(started.input, r)]_vars

\* The step created a vital, lab or consultation of patient p, or changed p's row.
MutatesPatient(p) ==
  \/ p \in ExistingPatients /\ patients'[p] # patients[p]
  \/ \E r \in (1..Len(rows')) \ ExistingRows :
       rows'[r].patientId = p /\ rows'[r].table # "summary"

\* C15: every successful create of a vital, lab or consultation and every successful
\* update or archive of a patient has deleted the key ai:structured-input:{patientId}
\* when its success response is sent.
C15_MutationInvalidatesCache ==
  [][\A p \in PatientIds :
       (MutatesPatient(p) /\ resp'.status \in {200, 201, 204})
       => \A c \in cache' : c.patientId # p]_vars

\* C16: a request that carries its token only in the token query parameter is
\* authenticated only on GET /ai/stream/:jobId; every other protected route, staff
\* and portal, answers it 401.
C16_QueryTokenOnlyOnStream ==
  (areq.header = "none" /\ areq.query # "none" /\ areq.route # StreamRoute)
    => (areq.user = "none" /\ areq.status = 401)

\* The invite a setup request presents is good: the current inviteToken of a
\* non-archived patient without a passwordHash, not yet expired.
GoodInvite(p, inviteToken) ==
  /\ patients[p].inviteToken = inviteToken
  /\ ~patients[p].isArchived
  /\ patients[p].passwordHash = 0
  /\ patients[p].inviteExpiresAt # "past"

\* C17: patient-setup goes ahead only with a good invite and succeeds only for a
\* patient without a passwordHash; a success sets email and passwordHash and clears
\* inviteToken and inviteExpiresAt; a token that was used up is answered 404 and an
\* expired one 410, and a rejected setup changes nothing.
C17_SetupConsumesInvite ==
  [][/\ \A s \in setups' \ setups : GoodInvite(s.patientId, s.inviteToken)
     /\ \A s \in setups \ setups' :
          resp'.status = 200 =>
            /\ patients[s.patientId].passwordHash = 0
            /\ patients'[s.patientId].email = s.cred
            /\ patients'[s.patientId].passwordHash = s.cred
            /\ patients'[s.patientId].inviteToken = 0
            /\ patients'[s.patientId].inviteExpiresAt = "null"
     /\ \A t \in InviteTokens, cred \in Credentials :
          /\ findByInviteToken(t) = {} => setupChecks(t, cred) = 404
          /\ (\E p \in findByInviteToken(t) :
                /\ ~patients[p].isArchived /\ patients[p].passwordHash = 0
                /\ patients[p].inviteExpiresAt = "past")
               => setupChecks(t, cred) = 410
     /\ (resp' # resp /\ resp'.caller = NoClinic /\ resp'.status \in {400, 404, 409, 410})
          => (patients' = patients /\ sessions' = sessions)]_vars

\* The entity type an AuditLog row names for a row of a table.
EntityTypeOf(table) ==
  CASE table = "vital" -> "VITAL_RECORD"
    [] table = "lab" -> "LAB_RESULT"
    [] table = "consultation" -> "CONSULTATION"
    [] OTHER -> "AI_SUMMARY"

\* The AuditLog row a has the id of a principal of the caller's clinic and names an
\* entity the step created or changed.
AuditNamesMutation(a) ==
  /\ a # NoAudit
  /\ a.userId \in { u.id : u \in { s \in Staff : s.clinicId = resp'.caller } }
  /\ \/ /\ a.entityType = "PATIENT"
        /\ a.entityId \in 1..Len(patients')
        /\ a.entityId \in ExistingPatients => patients'[a.entityId] # patients[a.entityId]
     \/ /\ a.entityId \in (1..Len(rows')) \ ExistingRows
        /\ a.entityType = EntityTypeOf(rows'[a.entityId].table)

\* C18: when a mutation endpoint sends its success response (patient create, update,
\* archive, invite; vital, lab, consultation create; patient setup; portal profile
\* update and password change), the request has written an AuditLog row with the
\* principal's id and the entity's type and id.
C18_MutationsAudited ==
  [][(/\ patients' # patients \/ Len(rows') > Len(rows)
      /\ ~(\E id \in PatientIds : InviteExpires(id))
      /\ resp'.status \in {200, 201, 204})
     => AuditNamesMutation(resp'.audit)]_vars

\* C19: a read endpoint (staff reads of vitals, labs, consultations, analytics and
\* summaries, and the portal's reads) returns no patient row and no clinical row of an
\* archived patient, also to a patient archived after their portal token was issued.
C19_ReadsHideArchived ==
  [][(/\ resp' # resp
      /\ patients' = patients /\ rows' = rows
      /\ resp'.status = 200)
     => /\ \A p \in resp'.patients : ~patients[p].isArchived
        /\ \A r \in resp'.rows : ~patients[rows[r].patientId].isArchived]_vars

\* C20: once DELETE /patients/:id has archived a patient, the row stays, archived; no
\* later response of the staff API carries the patient; GET /patients/:id answers 404;
\* another DELETE answers 404 (403 to a non-admin), changes nothing and writes no
\* AuditLog row.
C20_ArchivedPatientGone ==
  [][\A p \in ExistingPatients :
       patients[p].isArchived =>
         /\ Len(patients') >= Len(patients) /\ patients'[p].isArchived
         /\ resp' # resp => p \notin resp'.patients
         /\ \A u \in Staff :
              /\ PatientsGet(u, p) => resp'.status = 404
              /\ PatientsDelete(u, p) =>
                   /\ resp'.status = IF u.role = "ADMIN" THEN 404 ELSE 403
                   /\ resp'.audit = NoAudit
                   /\ patients' = patients]_vars

\* Every patient is archived, and the last request, sent by the patients' own clinic,
\* was answered 404 with no AuditLog row written.
C20_Witness ==
  /\ \A p \in PatientIds : p \in ExistingPatients /\ patients[p].isArchived
  /\ resp.status = 404
  /\ \A p \in PatientIds : patients[p].clinicId = resp.caller
  /\ resp.audit = NoAudit

\* ---------------------------------------------------------------- C21
\* Two register-clinic requests share an email when their clinic emails or their admin
\* emails are equal.
ShareEmail(r1, r2) ==
  \/ registrations[r1].clinicEmail = registrations[r2].clinicEmail
  \/ registrations[r1].adminEmail = registrations[r2].adminEmail

RowsOfRegistration(r) ==
  << { c \in clinicTable : c.by = r }, { u \in userTable : u.by = r },
     { a \in auditLogTable : a.by = r } >>

\* A finished registration either created the Clinic, exactly one ADMIN user and the
\* REGISTER_CLINIC audit record, or created nothing at all.
RegistrationAtomic(r) ==
  LET created == RowsOfRegistration(r)
  IN IF registrations[r].status = 201
       THEN /\ Cardinality(created[1]) = 1
            /\ Cardinality(created[2]) = 1
            /\ \A u \in created[2] : u.role = "ADMIN"
            /\ Cardinality(created[3]) = 1
            /\ \A a \in created[3] : a.action = "REGISTER_CLINIC"
       ELSE created = << {}, {}, {} >>

\* C21: of the valid register-clinic requests that share a clinic email or an admin
\* email, concurrent ones included, at most one succeeds, every other one is answered
\* 409 and creates no row, and a successful one creates its Clinic, one ADMIN user and
\* the audit record together.
C21_DuplicateRegistrationConflicts ==
  \A r1 \in RegIds, r2 \in RegIds :
    ( /\ r1 # r2
      /\ registrations[r1].pc = "done" /\ registrations[r1].status # 400
      /\ registrations[r2].pc = "done" /\ registrations[r2].status # 400
      /\ ShareEmail(r1, r2) )
    => /\ ~(registrations[r1].status = 201 /\ registrations[r2].status = 201)
       /\ registrations[r1].status = 201 \/ registrations[r1].status = 409
       /\ RegistrationAtomic(r1)

\* The parts of C21 the code keeps: at most one success, and all-or-nothing creation.
C21_AtMostOneAndAtomic ==
  \A r1 \in RegIds, r2 \in RegIds :
    ( /\ r1 # r2
      /\ registrations[r1].pc = "done" /\ registrations[r1].status # 400
      /\ registrations[r2].pc = "done" /\ registrations[r2].status # 400
      /\ ShareEmail(r1, r2) )
    => /\ ~(registrations[r1].status = 201 /\ registrations[r2].status = 201)
       /\ RegistrationAtomic(r1)

\* ---------------------------------------------------------------- C22
\* C22: a request whose clinic id could not be bound (no clinicId on the verified token,
\* or the SET LOCAL statement failed) is answered 403 and no handler query is executed.
C22_UnboundClinicForbidden ==
  \A r \in RlsReqIds :
    rreq[r].bound \in {"missing", "failed"}
      => (rreq[r].pc = "done403" /\ rreq[r].queries = 0)

\* What the code keeps of C22: the unbound request never reaches its handler, and the
\* missing clinic id is answered 403.
C22_UnboundRunsNoQuery ==
  \A r \in RlsReqIds :
    /\ rreq[r].bound \in {"missing", "failed"}
         => (rreq[r].pc \in {"done403", "done500"} /\ rreq[r].queries = 0)
    /\ rreq[r].bound = "missing" => rreq[r].pc = "done403"

\* ---------------------------------------------------------------- C23
\* C23: for every input, computeCompositeRiskScore returns an integer score in [0,100],
\* four contributor sub-scores each in [0,100], and the tier that the thresholds 25, 50
\* and 75 assign to that score.
C23_RiskScoreInRangeTierConsistent ==
  riskResult # NoRiskResult =>
    /\ riskResult.score \in 0..100
    /\ Len(riskResult.contributors) = 4
    /\ \A i \in 1..4 : riskResult.contributors[i].score \in 0..100
    /\ (riskResult.tier = "low") <=> (riskResult.score < 25)
    /\ (riskResult.tier = "moderate") <=> (25 <= riskResult.score /\ riskResult.score < 50)
    /\ (riskResult.tier = "high") <=> (50 <= riskResult.score /\ riskResult.score < 75)
    /\ (riskResult.tier = "critical") <=> (riskResult.score >= 75)

\* A call whose raw sub-scores exceed 100 before clamping, answered with the top tier.
C23_Witness ==
  /\ riskResult # NoRiskResult
  /\ riskInput.anomalyCount * 20 > 100
  /\ Len(riskInput.recentSymptoms) = 5
  /\ \A i \in 1..5 : concerningPattern(riskInput.recentSymptoms[i])
  /\ riskResult.tier = "critical"

\* ---------------------------------------------------------------- C24
\* The flag as the z-score of the chronologically most recent numeric reading against
\* the readings recorded before it decides it.
FlagOfMostRecent(type, chronological) ==
  LET numeric == toNumericValues(chronological)
      z == IF Len(numeric) < minTrendLength THEN NoZScore
           ELSE zScore(numeric[Len(numeric)], SubSeq(numeric, 1, Len(numeric) - 1))
  IN IF z.isNull THEN FALSE
     ELSE IF type = "WEIGHT" THEN zAbsAtLeast2(z)
     ELSE zAtLeast2(z)

\* C24: in worker processing, each risk flag is decided by the z-score of the most
\* recent reading of its vital type among those fetched, against the readings recorded
\* before it.
C24_FlagDecidedByMostRecentReading ==
  zFlag.done => zFlag.flag = FlagOfMostRecent(zInput.type, zInput.readings)

\* ---------------------------------------------------------------- C25
RECURSIVE Flatten(_)
Flatten(seqs) == IF seqs = << >> THEN << >> ELSE Head(seqs) \o Flatten(Tail(seqs))

MatchingIds == { p.id : p \in matchingPatients(PageCaller) }

\* Each page holds at most `limit` patients, all of them non-archived patients of the
\* caller's clinic, and its nextCursor is null or the id of its last patient.
PagesWellFormed ==
  \A i \in 1..Len(walk.pages) :
    LET page == walk.pages[i]
    IN /\ Len(page.data) <= walk.limit
       /\ \A k \in 1..Len(page.data) : page.data[k] \in MatchingIds
       /\ page.nextCursor # NoCursor =>
            (page.data # << >> /\ page.nextCursor = page.data[Len(page.data)])

\* A walk that followed nextCursor until it was null has returned every non-archived
\* patient of the clinic exactly once.
WalkComplete ==
  walk.done =>
    LET seen == Flatten([i \in 1..Len(walk.pages) |-> walk.pages[i].data])
    IN /\ { seen[i] : i \in 1..Len(seen) } = MatchingIds
       /\ \A i, j \in 1..Len(seen) : i # j => seen[i] # seen[j]

\* C25: GET /patients with limit L returns at most L non-archived patients of the
\* caller's clinic with nextCursor = the last id iff more follow, and following
\* nextCursor from no cursor until null, with no writes in between, returns every
\* non-archived patient of the clinic exactly once.
C25_CursorPagesCoverClinicOnce == PagesWellFormed /\ WalkComplete

\* The same for tables in which no two matching patients share their createdAt.
C25_CoverOnceWhenCreatedAtDistinct ==
  (\A a, b \in matchingPatients(PageCaller) : a.createdAt = b.createdAt => a = b)
    => C25_CursorPagesCoverClinicOnce

\* ---------------------------------------------------------------- C26
ClosingFrames == {"completed", "failed", "timeout"}

\* C26: on one stream, once a completed, failed or timeout frame has been written, no
\* further data frame is written to that client.
C26_NoFrameAfterClosingFrame ==
  \A i, j \in 1..Len(stream.frames) :
    i < j => stream.frames[i].state \notin ClosingFrames

\* ---------------------------------------------------------------- C27
\* C27: a generate-summary request that was answered 503 has no job in the queue, now
\* or later: neither the enqueue timer winning the race against the queue add nor a
\* failed usage increment leaves a job behind for a request the caller was told failed.
C27_No503WithJobQueued ==
  \A r \in QReqIds :
    (qreq[r].pc = "done" /\ qreq[r].status = 503)
      => ~qreq[r].jobAdded

\* ---------------------------------------------------------------- C28
\* C28: of the patient-setup requests that present the same valid invite token, also
\* concurrently, at most one succeeds: a request that completes after another one has
\* set the patient's credentials is not answered 200, obtains no PATIENT token and
\* leaves the stored email and passwordHash as the successful request wrote them.
C28_OneSetupPerInvite ==
  [][\A s \in setups \ setups' :
       patients[s.patientId].passwordHash # 0
         => /\ resp'.status # 200
            /\ patients'[s.patientId].email = patients[s.patientId].email
            /\ patients'[s.patientId].passwordHash = patients[s.patientId].passwordHash]_vars

\* ---------------------------------------------------------------- C29
\* C29: a create request (POST /patients, /vitals, /labs, /consultations) that is
\* answered 500 leaves no new entity row behind.
C29_FailedCreatePersistsNothing ==
  [][resp'.status = 500 => (patients' = patients /\ rows' = rows)]_vars

\* ---------------------------------------------------------------- C30
\* The request was answered with success, or entered a handler that can answer so.
Succeeds(r) == r.status = 0 \/ r.status = 200

\* C30: a valid PATIENT token never obtains a success response from a route behind the
\* staff middleware chain, and a valid ADMIN or DOCTOR token never obtains one from a
\* /portal route.
C30_RolesKeptApart ==
  /\ (areq.user = "PATIENT" /\ areq.route \in ProtectedRoutes \ PortalRoutes)
       => ~Succeeds(areq)
  /\ (areq.user \in {"ADMIN", "DOCTOR"} /\ areq.route \in PortalRoutes)
       => ~Succeeds(areq)

\* What the code keeps of C30: staff tokens are turned away from /portal, and PATIENT
\* tokens from every staff route that has a role gate.
C30_GatedRoutesKeptApart ==
  /\ (areq.user = "PATIENT" /\ areq.route \in AdminRoutes \cup StaffRoutes)
       => areq.status = 403
  /\ (areq.user \in {"ADMIN", "DOCTOR"} /\ areq.route \in PortalRoutes)
       => areq.status = 403

====
